---- MODULE Spec2Model ----
(***************************************************************************)
(* The NewReno congestion controller (src/NewReno.py) and the windowed     *)
(* transmission loop of the sender (src/QuicSender.py).                    *)
(*                                                                         *)
(* Time.  time.time() is a clock read; the clock `now` counts ticks of one *)
(* millisecond.  RTT samples handed to on_ack are in ticks, the estimator  *)
(* (estimated_rtt, dev_rtt) counts thousandths of a millisecond, so the    *)
(* code's conversion rtt * 1000 (seconds to milliseconds) is the model's   *)
(* conversion ticks to estimator units.  The EWMA divisions are floored:   *)
(* the code's floats are approximated to one thousandth of a millisecond.  *)
(*                                                                         *)
(* Eight specifications share the variables:                               *)
(*   CtlSpec  a controller called with arbitrary on_ack / on_loss          *)
(*            arguments (the contract of NewReno on its own);              *)
(*   Spec     QuicSender.simulate driving the controller, against a        *)
(*            channel that may deliver any acknowledgment id or none;      *)
(*   AttemptSpec one attempt of simulate with more packets, against a      *)
(*            channel that delivers at most one acknowledgment;            *)
(*   FairAttemptSpec one attempt of simulate with the sender thread        *)
(*            always scheduled;                                            *)
(*   RecvSpec QuicReceiver.start_receiver and receive_data with their      *)
(*            send_ack threads, against a sender that may send any id;     *)
(*   SessionSpec the sender and the receiver together, each reading the    *)
(*            other's datagrams in sending order;                          *)
(*   CodecSpec the packet id field written and read back;                  *)
(*   EstSpec  the RTT estimator of the controller at a finer time scale.   *)
(*                                                                         *)
(* Payload generation (create_all_content) and the plotting methods are    *)
(* collaborators outside the model; of plot_results the model keeps        *)
(* prepare_data, which runs unless is_test is set.                         *)
(***************************************************************************)
EXTENDS Integers, Sequences, FiniteSets, TLC

VARIABLES
    cc,                \* self.congestion_control: the NewReno instance
    now,               \* the wall clock read by time.time(), in ticks
    last_call,         \* the last controller call: its arguments and the controller before it
    pc,                \* the sender's position in simulate
    exc,               \* the exception that left simulate, or "none"
    num_packets,       \* simulate's argument
    round_index,       \* simulate: round_index
    packet_sent,       \* self.packet_sent: id -> send time
    packet_times,      \* self.packet_times: id -> measured rtt
    global_start_time, \* self.global_start_time
    rtt_times,         \* self.rtt_times
    total_data_passed, \* self.total_data_passed
    packet_id,         \* simulate: packet_id
    loss_timestamps,   \* simulate: loss_timestamps
    acked_packets,     \* simulate: acked_packets
    sent_packets,      \* simulate: sent_packets
    packets_in_window, \* simulate: packets_in_window of the current window
    acks_left,         \* iterations left of `for _ in range(packets_in_window)`
    window_start,      \* packet_id as passed to send_packets_in_window
    expiry,            \* what the loop saw at the last deadline expiry
    acks_delivered,    \* acknowledgment datagrams the channel has delivered
    wire,              \* ids of the datagrams handed to the socket, in order
    is_test,           \* self.is_test
    report,            \* plot_results: what prepare_data returned, until the round is left
    ack_log,           \* what each acknowledgment of the round recorded, in order
    closed_on,         \* ids receive_ack returned before sender_socket.close()
    codec,             \* CodecSpec: an id, its datagram and the id read back
    r_pc,              \* the receiver's position in start_receiver / receive_data
    r_packet_id,       \* receive_data: packet_id
    received_packets,  \* self.received_packets
    lock,              \* self.lock: its holder, or "free"
    ack_threads,       \* started send_ack threads that have not sent yet: their ids
    r_out,             \* datagrams handed to receiver_socket.sendto, in order
    r_timeout,         \* the receiver socket's timeout setting
    r_open,            \* the receiver socket is open
    r_accepted,        \* ids of the packets that passed the loss draw, in order
    r_decided,         \* ids of the datagrams read right after an end marker
    r_in               \* datagrams the receiver socket has delivered

vars == << cc, now, last_call, pc, exc, num_packets, round_index, packet_sent,
           packet_times, global_start_time, rtt_times, total_data_passed,
           packet_id, loss_timestamps, acked_packets, sent_packets,
           packets_in_window, acks_left, window_start, expiry,
           acks_delivered, wire, is_test, report, ack_log, closed_on, codec,
           r_pc, r_packet_id, received_packets, lock, ack_threads, r_out,
           r_timeout, r_open, r_accepted, r_decided, r_in >>

senderVars == << pc, exc, num_packets, round_index, packet_sent,
           packet_times, global_start_time, rtt_times, total_data_passed,
           packet_id, loss_timestamps, acked_packets, sent_packets,
           packets_in_window, acks_left, window_start, expiry,
           acks_delivered, wire, is_test, report, ack_log, closed_on >>

recvVars == << r_pc, r_packet_id, received_packets, lock, ack_threads, r_out,
               r_timeout, r_open, r_accepted, r_decided, r_in >>

(***************************************************************************)
(* Program constants                                                       *)
(***************************************************************************)
MAX_PACKET_SIZE == 1500

\* float('inf'): the initial ssthresh. Compared only through Less and SsLeq.
Infinity == -1

\* None, for recovery_start_time and global_start_time. The code tests
\* recovery_start_time by truthiness, which None and 0.0 both fail; the clock
\* never reads 0.
None == 0

\* rtt * 1000: estimator units per tick.
RttUnits == 1000

\* estimated_rtt = 0.0001 * 1000 ms and dev_rtt = 0.001 * 1000 ms, in estimator units.
InitEstimatedRtt == 100

InitDevRtt == 1000

\* self.sender_socket.settimeout(0.75), in ticks
SOCKET_TIMEOUT == 750

\* time.sleep(0.5) before a new round, in ticks
RESTART_SLEEP == 500

\* self.newreno.update_rtt(50) in test_update_rtt: a sample of 50 ms
TestRttSample == 50

(***************************************************************************)
(* Bounds of the model                                                     *)
(***************************************************************************)
\* CtlSpec: controller calls per behaviour.
MaxCalls == 4

\* EstSpec: estimator updates per behaviour.
EstMaxCalls == 2

\* EstSpec: the RTT samples tried are 0..EstMaxSample milliseconds and the
\* sample of the unit test.
EstMaxSample == 4

\* CtlSpec: the clock stops at this reading.
CtlMaxTime == 3

\* CtlSpec: rtt arguments are 0..MaxRtt ticks.
MaxRtt == 1

\* CtlSpec: acked_bytes arguments are 0, MSS and MaxAckedSegments * MSS.
MaxAckedSegments == 6

\* Spec: num_packets is 0..MaxPackets.
MaxPackets == 3

\* AttemptSpec: num_packets is 0..ManyPackets.
ManyPackets == 5

\* Spec: rounds (attempts) per session.
MaxRounds == 2

\* Spec: acknowledgment datagrams the channel delivers to window waits.
MaxAcks == 3

\* Spec: ticks that may pass in a send or before an acknowledgment arrives.
MaxDelay == 1

\* Spec: the clock stops at this reading.
MaxTime == 3000

\* CodecSpec: ids up to 10^CodecMaxExp + 1 in magnitude.
CodecMaxExp == 8

\* RecvSpec: the sender's data ids are 0..MaxRecvId.
MaxRecvId == 1

\* RecvSpec: datagrams the sender delivers to the receiver.
MaxInbound == 5

Max(a, b) == IF a >= b THEN a ELSE b

Min(a, b) == IF a <= b THEN a ELSE b

Abs(a) == IF a >= 0 THEN a ELSE 0 - a

Last(s) == s[Len(s)]

\* congestion_window < ssthresh, with ssthresh possibly float('inf')
Less(cwnd, ssthresh) == ssthresh = Infinity \/ cwnd < ssthresh

(***************************************************************************)
(* NewReno                                                                 *)
(***************************************************************************)
NewReno ==
    [ congestion_window   |-> 2 * MAX_PACKET_SIZE,
      ssthresh            |-> Infinity,
      recovery_start_time |-> None,
      acked_bytes         |-> 0,
      estimated_rtt       |-> InitEstimatedRtt,
      dev_rtt             |-> InitDevRtt,
      loss_detected       |-> FALSE,
      cwnd_log            |-> << >>,
      estimated_rtt_log   |-> << InitEstimatedRtt >>,
      state_log           |-> << 0 >>,
      max_ssthresh        |-> 0,
      rtt_var_log         |-> << >> ]

get_congestion_state_leq(c) ==
    IF c.recovery_start_time # None THEN 2
    ELSE IF (c.ssthresh = Infinity \/ c.congestion_window <= c.ssthresh)
            /\ ~c.loss_detected THEN 0
    ELSE 1

get_congestion_state(c) ==
    IF c.recovery_start_time # None THEN 2
    ELSE IF Less(c.congestion_window, c.ssthresh) /\ ~c.loss_detected THEN 0
    ELSE 1

\* self.congestion_window / MAX_PACKET_SIZE, a true division: the quotient is
\* kept as whole segments plus a remainder of bytes.
Segments(cwnd) ==
    [ whole |-> cwnd \div MAX_PACKET_SIZE, part |-> cwnd % MAX_PACKET_SIZE ]

update_rtt_old_estimate(c, rtt_sample) ==
    LET est == (7 * c.estimated_rtt + rtt_sample) \div 8
        dev == (3 * c.dev_rtt + Abs(rtt_sample - c.estimated_rtt)) \div 4
    IN  [c EXCEPT !.estimated_rtt = est,
                  !.dev_rtt = dev,
                  !.rtt_var_log = Append(@, dev)]

\* alpha = 0.125, beta = 0.25; the deviation uses the updated estimate.
update_rtt(c, rtt_sample) ==
    LET est == (7 * c.estimated_rtt + rtt_sample) \div 8
        dev == (3 * c.dev_rtt + Abs(rtt_sample - est)) \div 4
    IN  [c EXCEPT !.estimated_rtt = est,
                  !.dev_rtt = dev,
                  !.rtt_var_log = Append(@, dev)]

LinearIncreasePostWindow(cwnd, acked_bytes) ==
    (MAX_PACKET_SIZE * acked_bytes) \div (cwnd + MAX_PACKET_SIZE)

\* (MAX_PACKET_SIZE * acked_bytes) // self.congestion_window
LinearIncrease(cwnd, acked_bytes) ==
    (MAX_PACKET_SIZE * acked_bytes) \div cwnd

on_ack_logs_on_entry(c, acked_bytes, rtt, t) ==
    LET c1 == [update_rtt(c, rtt * RttUnits)
                 EXCEPT !.acked_bytes = @ + acked_bytes]
        c2 == IF c1.recovery_start_time # None
                 /\ t > c1.recovery_start_time + rtt
              THEN [c1 EXCEPT !.recovery_start_time = None]
              ELSE c1
        c3 == IF Less(c2.congestion_window, c2.ssthresh)
              THEN [c2 EXCEPT !.congestion_window = @ + MAX_PACKET_SIZE]
              ELSE [c2 EXCEPT !.congestion_window =
                                  @ + LinearIncrease(@, acked_bytes),
                              !.loss_detected = FALSE]
    IN  [c3 EXCEPT !.cwnd_log = Append(@, Segments(c.congestion_window)),
                   !.estimated_rtt_log = Append(@, c.estimated_rtt),
                   !.state_log = Append(@, get_congestion_state(c))]

on_ack_exits_at_deadline(c, acked_bytes, rtt, t) ==
    LET c1 == [update_rtt(c, rtt * RttUnits)
                 EXCEPT !.acked_bytes = @ + acked_bytes]
        c2 == IF c1.recovery_start_time # None
                 /\ t >= c1.recovery_start_time + rtt
              THEN [c1 EXCEPT !.recovery_start_time = None]
              ELSE c1
        c3 == IF Less(c2.congestion_window, c2.ssthresh)
              THEN [c2 EXCEPT !.congestion_window = @ + MAX_PACKET_SIZE]
              ELSE [c2 EXCEPT !.congestion_window =
                                  @ + LinearIncrease(@, acked_bytes),
                              !.loss_detected = FALSE]
    IN  [c3 EXCEPT !.cwnd_log = Append(@, Segments(c3.congestion_window)),
                   !.estimated_rtt_log = Append(@, c3.estimated_rtt),
                   !.state_log = Append(@, get_congestion_state(c3))]

\* on_ack; t is the clock read by time.time() in the recovery check.
on_ack(c, acked_bytes, rtt, t) ==
    LET c1 == [update_rtt(c, rtt * RttUnits)
                 EXCEPT !.acked_bytes = @ + acked_bytes]
        c2 == IF c1.recovery_start_time # None
                 /\ t > c1.recovery_start_time + rtt
              THEN [c1 EXCEPT !.recovery_start_time = None]
              ELSE c1
        c3 == IF Less(c2.congestion_window, c2.ssthresh)
              THEN [c2 EXCEPT !.congestion_window = @ + MAX_PACKET_SIZE]
              ELSE [c2 EXCEPT !.congestion_window =
                                  @ + LinearIncrease(@, acked_bytes),
                              !.loss_detected = FALSE]
    IN  [c3 EXCEPT !.cwnd_log = Append(@, Segments(c3.congestion_window)),
                   !.estimated_rtt_log = Append(@, c3.estimated_rtt),
                   !.state_log = Append(@, get_congestion_state(c3))]

NewSsthreshNoFloor(cwnd) == cwnd \div 2

NewSsthreshFloorOneSegment(cwnd) == Max(cwnd \div 2, MAX_PACKET_SIZE)

\* max(self.congestion_window // 2, 2 * MAX_PACKET_SIZE)
NewSsthresh(cwnd) == Max(cwnd \div 2, 2 * MAX_PACKET_SIZE)

HalvedWindowNoFloor(cwnd) == cwnd \div 2

HalvedWindowToMinimum(cwnd) == 2 * MAX_PACKET_SIZE

\* max(2 * MAX_PACKET_SIZE, self.congestion_window // 2)
HalvedWindow(cwnd) == Max(2 * MAX_PACKET_SIZE, cwnd \div 2)

InRecoveryForAnyLoss(c, time_sent) == c.recovery_start_time # None

InRecoveryForStrictlyLater(c, time_sent) ==
    c.recovery_start_time # None /\ c.recovery_start_time > time_sent

\* self.recovery_start_time and self.recovery_start_time >= time_sent
InRecoveryFor(c, time_sent) ==
    c.recovery_start_time # None /\ c.recovery_start_time >= time_sent

on_loss_keeps_max_ssthresh(c, time_sent, is_persistent_congestion, t) ==
    LET c1 == [c EXCEPT !.loss_detected = TRUE]
    IN  IF InRecoveryFor(c1, time_sent)
        THEN [c1 EXCEPT !.state_log = Append(@, get_congestion_state(c1))]
        ELSE
          LET c2 == [c1 EXCEPT !.recovery_start_time = t,
                               !.ssthresh = NewSsthresh(c1.congestion_window)]
              c3 == IF is_persistent_congestion
                    THEN [c2 EXCEPT !.congestion_window = 2 * MAX_PACKET_SIZE,
                                    !.recovery_start_time = None,
                                    !.loss_detected = FALSE]
                    ELSE [c2 EXCEPT !.congestion_window = HalvedWindow(@)]
          IN  [c3 EXCEPT !.state_log = Append(@, get_congestion_state(c3))]

\* on_loss; t is the clock read by time.time() when recovery is entered.
on_loss(c, time_sent, is_persistent_congestion, t) ==
    LET c1 == [c EXCEPT !.loss_detected = TRUE]
    IN  IF InRecoveryFor(c1, time_sent)
        THEN [c1 EXCEPT !.state_log = Append(@, get_congestion_state(c1))]
        ELSE
          LET c2 == [c1 EXCEPT !.recovery_start_time = t,
                               !.ssthresh = NewSsthresh(c1.congestion_window),
                               !.max_ssthresh = NewSsthresh(c1.congestion_window)]
              c3 == IF is_persistent_congestion
                    THEN [c2 EXCEPT !.congestion_window = 2 * MAX_PACKET_SIZE,
                                    !.recovery_start_time = None,
                                    !.loss_detected = FALSE]
                    ELSE [c2 EXCEPT !.congestion_window = HalvedWindow(@)]
          IN  [c3 EXCEPT !.state_log = Append(@, get_congestion_state(c3))]

\* The record kept of a controller call: the operation, the controller before
\* it, its arguments and its return value.  The remaining fields summarise the
\* calls made on this controller so far and are filled in by Track.
Call(op, c, acked_bytes, rtt, time_sent, persistent, result) ==
    [ op |-> op, pre |-> c, acked_bytes |-> acked_bytes, rtt |-> rtt,
      time_sent |-> time_sent, persistent |-> persistent, result |-> result,
      acks |-> 0, losses |-> 0, reads |-> 0, peak |-> 0, results |-> << >>,
      halved |-> FALSE ]

\* The record of a call that follows the call recorded in prev and leaves the
\* controller as post: acks, losses and reads count the on_ack, on_loss and
\* get_congestion_state calls,
\* peak is the largest finite ssthresh the controller has held after a call,
\* results are the values returned by the get_congestion_state calls made
\* since the last call of another operation, halved tells that the last
\* on_loss call that got past its early return was not one with persistent
\* congestion.
Track(prev, call, post) ==
    [ call EXCEPT
        !.acks    = prev.acks + (IF call.op = "ack" THEN 1 ELSE 0),
        !.losses  = prev.losses + (IF call.op = "loss" THEN 1 ELSE 0),
        !.reads   = prev.reads + (IF call.op = "state" THEN 1 ELSE 0),
        !.peak    = IF post.ssthresh # Infinity
                    THEN Max(prev.peak, post.ssthresh)
                    ELSE prev.peak,
        !.results = IF call.op = "state"
                    THEN Append(IF prev.op = "state" THEN prev.results
                                ELSE << >>, call.result)
                    ELSE << >>,
        !.halved  = IF call.op = "loss"
                       /\ ( call.pre.recovery_start_time = None
                            \/ call.pre.recovery_start_time < call.time_sent )
                    THEN ~call.persistent
                    ELSE prev.halved ]

NoExpiry ==
    [ seen |-> FALSE, stamps |-> << >>, estimated_rtt |-> 0, dev_rtt |-> 0,
      first |-> 0, next |-> 0, budget |-> 0, acked |-> {}, examined |-> {},
      persistent |-> FALSE ]

(***************************************************************************)
(* The packet id field: str(packet_id).zfill(8).encode() on the way out,   *)
(* int(packet[:8].decode().strip()) on the way in.  A string is a sequence *)
(* of one-character strings.                                               *)
(***************************************************************************)
Digits == << "0", "1", "2", "3", "4", "5", "6", "7", "8", "9" >>

DigitChars == { Digits[i] : i \in 1..10 }

\* The decimal digits of n >= 0, most significant first, no leading zeros.
RECURSIVE Decimal(_)
Decimal(n) ==
    IF n < 10 THEN << Digits[n + 1] >>
    ELSE Decimal(n \div 10) \o << Digits[(n % 10) + 1] >>

\* str(n) of an int
str(n) == IF n < 0 THEN << "-" >> \o Decimal(0 - n) ELSE Decimal(n)

Zeros(n) == [ i \in 1..n |-> "0" ]

zfill_before_sign(s, width) ==
    IF Len(s) >= width THEN s ELSE Zeros(width - Len(s)) \o s

\* s.zfill(width): at least width characters are returned as they are;
\* otherwise zeros are inserted after a leading sign, or in front.
zfill(s, width) ==
    IF Len(s) >= width THEN s
    ELSE IF s[1] \in {"-", "+"}
         THEN << s[1] >> \o Zeros(width - Len(s)) \o Tail(s)
         ELSE Zeros(width - Len(s)) \o s

\* packet[:8]
id_field(packet) == SubSeq(packet, 1, Min(8, Len(packet)))

\* .strip(): leading and trailing blanks removed
RECURSIVE strip(_)
strip(s) ==
    IF s = << >> THEN s
    ELSE IF Head(s) = " " THEN strip(Tail(s))
    ELSE IF Last(s) = " " THEN strip(SubSeq(s, 1, Len(s) - 1))
    ELSE s

\* The number written by a string of decimal digits.
RECURSIVE DigitsValue(_)
DigitsValue(s) ==
    IF s = << >> THEN 0
    ELSE 10 * DigitsValue(SubSeq(s, 1, Len(s) - 1))
         + ((CHOOSE i \in 1..10 : Digits[i] = Last(s)) - 1)

\* int(s): an optional sign and at least one decimal digit, else ValueError.
int(s) ==
    LET signed == s # << >> /\ s[1] \in {"-", "+"}
        body   == IF signed THEN Tail(s) ELSE s
    IN  IF body # << >> /\ \A i \in 1..Len(body) : body[i] \in DigitChars
        THEN [ raised |-> FALSE,
               value  |-> IF signed /\ s[1] = "-"
                          THEN 0 - DigitsValue(body) ELSE DigitsValue(body) ]
        ELSE [ raised |-> TRUE, value |-> 0 ]

\* The id field followed by the content.
make_packet(id, content) == zfill(str(id), 8) \o content

\* make_ack_packet: the id field alone
make_ack_packet(id) == zfill(str(id), 8)

\* int(packet[:8].decode().strip())
packet_id_of(packet) == int(strip(id_field(packet)))

\* The contents the sender appends: "S", "EOF", "END", and a data payload.
START_CONTENT == << "S" >>

EOF_CONTENT == << "E", "O", "F" >>

END_CONTENT == << "E", "N", "D" >>

DATA_CONTENT == << "7" >>

\* close_session: str(-2).zfill(8).encode() + "END".encode()
END_PACKET == make_packet(-2, END_CONTENT)

NoCodec ==
    [ stage |-> "idle", id |-> 0, packet |-> << >>, raised |-> FALSE,
      decoded |-> 0 ]

(***************************************************************************)
(* prepare_data: what plot_results hands to the plotting methods           *)
(***************************************************************************)
\* s[:n]
Prefix(s, n) == SubSeq(s, 1, Min(n, Len(s)))

\* [packet_times[i] for i in range(max(keys) + 1) if i in packet_times]:
\* the values in the order of their keys.
ValuesByKey(f) ==
    LET keys == DOMAIN f
        nth(k) == CHOOSE i \in keys : Cardinality({ j \in keys : j < i }) = k - 1
    IN  [ k \in 1..Cardinality(keys) |-> f[nth(k)] ]

\* get_min_over_time: the smallest value up to each position.
get_min_over_time(rtt_log) ==
    [ k \in 1..Len(rtt_log) |->
        CHOOSE m \in { rtt_log[j] : j \in 1..k } :
            \A j \in 1..k : m <= rtt_log[j] ]

\* prepare_data for a non-empty packet_times, with the slice of cwnd_log that
\* plot_congestion_window_size takes next to it.
prepare_data(times, c) ==
    LET all_rtt    == ValuesByKey(times)
        min_length == Min(Min(Len(all_rtt), Len(c.cwnd_log)),
                          Min(Len(c.state_log), Len(c.estimated_rtt_log)))
        rtt_log    == Prefix(all_rtt, min_length)
    IN  [ made              |-> TRUE,
          packet_numbers    |-> [ i \in 1..min_length |-> i ],
          rtt_log           |-> rtt_log,
          estimated_rtt_log |-> Prefix(c.estimated_rtt_log, min_length),
          state_log         |-> Prefix(c.state_log, min_length),
          min_length        |-> min_length,
          min_rtt           |-> get_min_over_time(rtt_log),
          dev_rtt           |-> Prefix(c.rtt_var_log, min_length),
          cwnd_log          |-> Prefix(c.cwnd_log, min_length) ]

NoReport ==
    [ made |-> FALSE, packet_numbers |-> << >>, rtt_log |-> << >>,
      estimated_rtt_log |-> << >>, state_log |-> << >>, min_length |-> 0,
      min_rtt |-> << >>, dev_rtt |-> << >>, cwnd_log |-> << >> ]

\* What one acknowledgment of the loop recorded: the entry of the loop and of
\* each controller log that the acknowledgment wrote.
AckEntry(rtt, c) ==
    [ rtt |-> rtt, estimated_rtt |-> Last(c.estimated_rtt_log),
      dev_rtt |-> Last(c.rtt_var_log), state |-> Last(c.state_log),
      cwnd |-> Last(c.cwnd_log) ]

(***************************************************************************)
(* The parts of the state a specification does not run                     *)
(***************************************************************************)
SenderIdle(position) ==
    /\ pc = position
    /\ exc = "none"
    /\ num_packets = 0
    /\ round_index = 0
    /\ packet_sent = << >>
    /\ packet_times = << >>
    /\ global_start_time = None
    /\ rtt_times = << >>
    /\ total_data_passed = << >>
    /\ packet_id = 1
    /\ loss_timestamps = << >>
    /\ acked_packets = {}
    /\ sent_packets = 0
    /\ packets_in_window = 0
    /\ acks_left = 0
    /\ window_start = 1
    /\ expiry = NoExpiry
    /\ acks_delivered = 0
    /\ wire = << >>
    /\ is_test = TRUE
    /\ report = NoReport
    /\ ack_log = << >>
    /\ closed_on = << >>

\* QuicReceiver.__init__: the socket is open and blocking, the set is empty,
\* the lock is free.
ReceiverConstructed ==
    /\ r_packet_id = 0
    /\ received_packets = {}
    /\ lock = "free"
    /\ ack_threads = << >>
    /\ r_out = << >>
    /\ r_timeout = "blocking"
    /\ r_open = TRUE
    /\ r_accepted = << >>
    /\ r_decided = << >>
    /\ r_in = 0

ReceiverIdle == r_pc = "idle" /\ ReceiverConstructed

CodecIdle == codec = NoCodec

(***************************************************************************)
(* CtlSpec: the controller on its own                                      *)
(***************************************************************************)
CtlInit ==
    /\ cc = NewReno
    /\ now = 1
    /\ last_call = Call("init", NewReno, 0, 0, 0, FALSE, 0)
    /\ SenderIdle("controller")
    /\ ReceiverIdle
    /\ CodecIdle

CtlCalls == Len(cc.state_log) - 1 + last_call.reads

CtlAckedBytes == {0, MAX_PACKET_SIZE, MaxAckedSegments * MAX_PACKET_SIZE}

CtlOnAck ==
    /\ CtlCalls < MaxCalls
    /\ \E acked_bytes \in CtlAckedBytes, rtt \in 0..MaxRtt :
         /\ cc' = on_ack(cc, acked_bytes, rtt, now)
         /\ last_call' = Track(last_call,
                               Call("ack", cc, acked_bytes, rtt, 0, FALSE, 0),
                               cc')
    /\ UNCHANGED << now, senderVars, recvVars, codec >>

CtlOnLoss ==
    /\ CtlCalls < MaxCalls
    /\ \E time_sent \in (now - 1)..(now + 1), persistent \in BOOLEAN :
         /\ cc' = on_loss(cc, time_sent, persistent, now)
         /\ last_call' = Track(last_call,
                               Call("loss", cc, 0, 0, time_sent, persistent, 0),
                               cc')
    /\ UNCHANGED << now, senderVars, recvVars, codec >>

CtlGetStateLogging ==
    /\ CtlCalls < MaxCalls
    /\ cc' = [cc EXCEPT !.state_log = Append(@, get_congestion_state(cc))]
    /\ last_call' = Track(last_call,
                          Call("state", cc, 0, 0, 0, FALSE,
                               get_congestion_state(cc)),
                          cc')
    /\ UNCHANGED << now, senderVars, recvVars, codec >>

\* A call of get_congestion_state from outside the controller.
CtlGetState ==
    /\ CtlCalls < MaxCalls
    /\ cc' = cc
    /\ last_call' = Track(last_call,
                          Call("state", cc, 0, 0, 0, FALSE,
                               get_congestion_state(cc)),
                          cc')
    /\ UNCHANGED << now, senderVars, recvVars, codec >>

CtlTick ==
    /\ now < CtlMaxTime
    /\ now' = now + 1
    /\ UNCHANGED << cc, last_call, senderVars, recvVars, codec >>

CtlNext == CtlOnAck \/ CtlOnLoss \/ CtlGetState \/ CtlTick

CtlSpec == CtlInit /\ [][CtlNext]_vars

(***************************************************************************)
(* Spec: QuicSender.simulate                                               *)
(***************************************************************************)
\* The ids an acknowledgment datagram may carry: -2 (end of session), 0 (the
\* start marker, never recorded in packet_sent) and the data ids.
AckIds == {-2} \cup (0..MaxPackets)

Init ==
    /\ cc = NewReno
    /\ now = 1
    /\ last_call = Call("init", NewReno, 0, 0, 0, FALSE, 0)
    /\ pc = "round"
    /\ exc = "none"
    /\ num_packets \in 0..MaxPackets
    /\ round_index = 0
    /\ packet_sent = << >>
    /\ packet_times = << >>
    /\ global_start_time = None
    /\ rtt_times = << >>
    /\ total_data_passed = << >>
    /\ packet_id = 1
    /\ loss_timestamps = << >>
    /\ acked_packets = {}
    /\ sent_packets = 0
    /\ packets_in_window = 0
    /\ acks_left = 0
    /\ window_start = 1
    /\ expiry = NoExpiry
    /\ acks_delivered = 0
    /\ wire = << >>
    /\ is_test \in BOOLEAN
    /\ report = NoReport
    /\ ack_log = << >>
    /\ closed_on = << >>
    /\ ReceiverIdle
    /\ CodecIdle

\* The head of the main loop: reset(), start_sending_initial_packet() and the
\* round's locals.
StartRoundKeepsPacketId ==
    /\ pc = "round"
    /\ cc' = NewReno
    /\ last_call' = Call("init", NewReno, 0, 0, 0, FALSE, 0)
    /\ packet_sent' = << >>
    /\ packet_times' = << >>
    /\ global_start_time' = None
    /\ rtt_times' = << >>
    /\ wire' = Append(wire, 0)
    /\ UNCHANGED packet_id
    /\ loss_timestamps' = << >>
    /\ acked_packets' = {}
    /\ sent_packets' = 0
    /\ window_start' = 1
    /\ expiry' = NoExpiry
    /\ ack_log' = << >>
    /\ pc' = "loop"
    /\ UNCHANGED << now, exc, num_packets, round_index, total_data_passed,
                    packets_in_window, acks_left, acks_delivered >>
    /\ UNCHANGED << is_test, report, closed_on, recvVars, codec >>

StartRoundKeepsRecords ==
    /\ pc = "round"
    /\ cc' = NewReno
    /\ last_call' = Call("init", NewReno, 0, 0, 0, FALSE, 0)
    /\ packet_sent' = << >>
    /\ UNCHANGED packet_times
    /\ global_start_time' = None
    /\ rtt_times' = << >>
    /\ wire' = Append(wire, 0)
    /\ packet_id' = 1
    /\ loss_timestamps' = << >>
    /\ UNCHANGED acked_packets
    /\ sent_packets' = 0
    /\ window_start' = 1
    /\ expiry' = NoExpiry
    /\ ack_log' = << >>
    /\ pc' = "loop"
    /\ UNCHANGED << now, exc, num_packets, round_index, total_data_passed,
                    packets_in_window, acks_left, acks_delivered >>
    /\ UNCHANGED << is_test, report, closed_on, recvVars, codec >>

StartRoundKeepsController ==
    /\ pc = "round"
    /\ UNCHANGED << cc, last_call >>
    /\ packet_sent' = << >>
    /\ packet_times' = << >>
    /\ global_start_time' = None
    /\ rtt_times' = << >>
    /\ wire' = Append(wire, 0)
    /\ packet_id' = 1
    /\ loss_timestamps' = << >>
    /\ acked_packets' = {}
    /\ sent_packets' = 0
    /\ window_start' = 1
    /\ expiry' = NoExpiry
    /\ ack_log' = << >>
    /\ pc' = "loop"
    /\ UNCHANGED << now, exc, num_packets, round_index, total_data_passed,
                    packets_in_window, acks_left, acks_delivered >>
    /\ UNCHANGED << is_test, report, closed_on, recvVars, codec >>

StartRound ==
    /\ pc = "round"
    /\ cc' = NewReno
    /\ last_call' = Call("init", NewReno, 0, 0, 0, FALSE, 0)
    /\ packet_sent' = << >>
    /\ packet_times' = << >>
    /\ global_start_time' = None
    /\ rtt_times' = << >>
    /\ wire' = Append(wire, 0)
    /\ packet_id' = 1
    /\ loss_timestamps' = << >>
    /\ acked_packets' = {}
    /\ sent_packets' = 0
    /\ window_start' = 1
    /\ expiry' = NoExpiry
    /\ ack_log' = << >>
    /\ pc' = "loop"
    /\ UNCHANGED << now, exc, num_packets, round_index, total_data_passed,
                    packets_in_window, acks_left, acks_delivered >>
    /\ UNCHANGED << is_test, report, closed_on, recvVars, codec >>

LoopContinuesStrict(id, n) == id < n

\* while packet_id <= num_packets
LoopContinues(id, n) == id <= n

\* The ids first, first + 1, ..., first + n - 1 as a sequence.
IdRun(first, n) == [ i \in 1..n |-> first + i - 1 ]

PacketsToSendNoBreak(budget, id, n) == budget

PacketsToSendAboveMinimum(budget, id, n) ==
    Min(budget - 2, Max(n - id + 1, 0))

PacketsToSendBreakAtLast(budget, id, n) == Min(budget, Max(n - id, 0))

\* send_packets_in_window: how many packets the loop sends for a budget,
\* stopping at `if packet_id > num_packets: break`.
PacketsToSend(budget, id, n) == Min(budget, Max(n - id + 1, 0))

AcksToAwaitSent(budget, count) == count

\* for _ in range(packets_in_window): the number of acknowledgments awaited
\* is the budget returned by send_packets_in_window, not the number sent.
AcksToAwait(budget, count) == budget

\* send_packets_in_window, and the loop's bookkeeping around it. The sends
\* read the clock d ticks after the previous step.
SendWindow ==
    /\ pc = "loop"
    /\ LoopContinues(packet_id, num_packets)
    /\ \E d \in 0..MaxDelay :
         LET budget == cc.congestion_window \div MAX_PACKET_SIZE
             count  == PacketsToSend(budget, packet_id, num_packets)
             ids    == packet_id..(packet_id + count - 1)
             t      == now + d
         IN  /\ t <= MaxTime
             /\ now' = t
             /\ packets_in_window' = budget
             /\ packet_sent' = [ i \in DOMAIN packet_sent \cup ids |->
                                   IF i \in ids THEN t ELSE packet_sent[i] ]
             /\ global_start_time' =
                    IF global_start_time = None /\ count > 0
                    THEN t ELSE global_start_time
             /\ wire' = wire \o IdRun(packet_id, count)
             /\ sent_packets' = sent_packets + count
             /\ packet_id' = packet_id + count
             /\ window_start' = packet_id
             /\ acks_left' = AcksToAwait(budget, count)
             /\ pc' = IF AcksToAwait(budget, count) > 0 THEN "wait"
                      ELSE "loop"
    /\ UNCHANGED << cc, last_call, exc, num_packets, round_index,
                    packet_times, rtt_times, total_data_passed,
                    loss_timestamps, acked_packets, expiry, acks_delivered >>
    /\ UNCHANGED << is_test, report, ack_log, closed_on, recvVars, codec >>

ReceiveAckRecordsFirst ==
    /\ pc = "wait"
    /\ acks_left > 0
    /\ acks_delivered < MaxAcks
    /\ \E id \in AckIds, d \in 0..MaxDelay :
         LET t == now + d
         IN  /\ t <= MaxTime
             /\ now' = t
             /\ acks_delivered' = acks_delivered + 1
             /\ IF id \notin DOMAIN packet_sent
                THEN /\ pc' = "raised"
                     /\ exc' = "KeyError"
                     /\ acked_packets' = acked_packets \cup {id}
                     /\ UNCHANGED << cc, last_call, packet_times, rtt_times,
                                     acks_left, ack_log >>
                ELSE LET rtt == t - packet_sent[id]
                     IN  /\ packet_times' =
                               [ i \in DOMAIN packet_times \cup {id} |->
                                   IF i = id THEN rtt ELSE packet_times[i] ]
                         /\ rtt_times' = Append(rtt_times, t - global_start_time)
                         /\ cc' = on_ack(cc, MAX_PACKET_SIZE, rtt, t)
                         /\ ack_log' = Append(ack_log,
                                AckEntry(rtt, on_ack(cc, MAX_PACKET_SIZE, rtt, t)))
                         /\ last_call' =
                                Track(last_call,
                                      Call("ack", cc, MAX_PACKET_SIZE, rtt, 0,
                                           FALSE, 0),
                                      on_ack(cc, MAX_PACKET_SIZE, rtt, t))
                         /\ acked_packets' = acked_packets \cup {id}
                         /\ acks_left' = acks_left - 1
                         /\ pc' = IF acks_left = 1 THEN "loop" ELSE "wait"
                         /\ UNCHANGED exc
    /\ UNCHANGED << num_packets, round_index, packet_sent, global_start_time,
                    total_data_passed, packet_id, loss_timestamps,
                    sent_packets, packets_in_window, window_start, expiry,
                    wire >>
    /\ UNCHANGED << is_test, report, closed_on, recvVars, codec >>

\* One iteration of `for _ in range(packets_in_window)`: receive_ack returns
\* an id after d ticks. An id without a send time raises KeyError at
\* self.packet_sent[acked_packet_id], before anything is recorded.
ReceiveAckOf(id, d) ==
    /\ pc = "wait"
    /\ acks_left > 0
    /\ acks_delivered < MaxAcks
    /\   LET t == now + d
         IN  /\ t <= MaxTime
             /\ now' = t
             /\ acks_delivered' = acks_delivered + 1
             /\ IF id \notin DOMAIN packet_sent
                THEN /\ pc' = "raised"
                     /\ exc' = "KeyError"
                     /\ UNCHANGED << cc, last_call, packet_times, rtt_times,
                                     acked_packets, acks_left, ack_log >>
                ELSE LET rtt == t - packet_sent[id]
                     IN  /\ packet_times' =
                               [ i \in DOMAIN packet_times \cup {id} |->
                                   IF i = id THEN rtt ELSE packet_times[i] ]
                         /\ rtt_times' = Append(rtt_times, t - global_start_time)
                         /\ cc' = on_ack(cc, MAX_PACKET_SIZE, rtt, t)
                         /\ ack_log' = Append(ack_log,
                                AckEntry(rtt, on_ack(cc, MAX_PACKET_SIZE, rtt, t)))
                         /\ last_call' =
                                Track(last_call,
                                      Call("ack", cc, MAX_PACKET_SIZE, rtt, 0,
                                           FALSE, 0),
                                      on_ack(cc, MAX_PACKET_SIZE, rtt, t))
                         /\ acked_packets' = acked_packets \cup {id}
                         /\ acks_left' = acks_left - 1
                         /\ pc' = IF acks_left = 1 THEN "loop" ELSE "wait"
                         /\ UNCHANGED exc
    /\ UNCHANGED << num_packets, round_index, packet_sent, global_start_time,
                    total_data_passed, packet_id, loss_timestamps,
                    sent_packets, packets_in_window, window_start, expiry,
                    wire >>
    /\ UNCHANGED << is_test, report, closed_on, recvVars, codec >>

\* receive_ack returns the id of some datagram, some time after the wait began.
ReceiveAck == \E id \in AckIds, d \in 0..MaxDelay : ReceiveAckOf(id, d)

\* rtt_threshold = estimated_rtt + (4 * dev_rtt) * 2
RttThreshold(c) == c.estimated_rtt + (4 * c.dev_rtt) * 2

\* range(packet_id - packets_in_window, packet_id)
WindowRange(id, budget) == (id - budget)..(id - 1)

StampsKeptAlways(stamps, persistent) == stamps

\* loss_timestamps = [] once persistent congestion has been detected
StampsKept(stamps, persistent) == IF persistent THEN << >> ELSE stamps

\* The ids the generator of lines 195-196 ranges over; it is evaluated only
\* when the two tests before it hold.
ExaminedIds(stamps, c, id, budget) ==
    IF Len(stamps) >= 2
       /\ stamps[Len(stamps)] - stamps[Len(stamps) - 1] < RttThreshold(c)
    THEN WindowRange(id, budget)
    ELSE {}

\* The test of lines 189-196 on the loss timestamps with the current one
\* appended. The timestamps are seconds (ticks / 1000) and the threshold is
\* the estimator's milliseconds (units / 1000): the code compares the two
\* numbers as they are, so ticks are compared with units.
IsPersistentCongestion(stamps, c, acked, id, budget) ==
    /\ Len(stamps) >= 2
    /\ stamps[Len(stamps)] - stamps[Len(stamps) - 1] < RttThreshold(c)
    /\ \A pkt \in WindowRange(id, budget) : pkt \notin acked

AckTimeoutInsideLoop ==
    /\ pc = "wait"
    /\ acks_left > 0
    /\ now + SOCKET_TIMEOUT <= MaxTime
    /\ LET current_time == now + SOCKET_TIMEOUT
           stamps == Append(loss_timestamps, current_time)
           persistent_congestion ==
               IsPersistentCongestion(stamps, cc, acked_packets, packet_id,
                                      packets_in_window)
       IN  /\ now' = current_time
           /\ loss_timestamps' = StampsKept(stamps, persistent_congestion)
           /\ cc' = on_loss(cc, current_time, persistent_congestion, current_time)
           /\ last_call' =
                  Track(last_call,
                        Call("loss", cc, 0, 0, current_time,
                             persistent_congestion, 0),
                        on_loss(cc, current_time, persistent_congestion,
                                current_time))
           /\ expiry' = [ seen |-> TRUE, stamps |-> stamps,
                          estimated_rtt |-> cc.estimated_rtt,
                          dev_rtt |-> cc.dev_rtt,
                          first |-> window_start, next |-> packet_id,
                          budget |-> packets_in_window,
                          acked |-> acked_packets,
                          examined |-> ExaminedIds(stamps, cc, packet_id,
                                                   packets_in_window),
                          persistent |-> persistent_congestion ]
    /\ acks_left' = acks_left - 1
    /\ pc' = IF acks_left = 1 THEN "loop" ELSE "wait"
    /\ UNCHANGED << exc, num_packets, round_index, packet_sent, packet_times,
                    global_start_time, rtt_times, total_data_passed,
                    packet_id, acked_packets, sent_packets,
                    packets_in_window, window_start, acks_delivered, wire >>
    /\ UNCHANGED << is_test, report, ack_log, closed_on, recvVars, codec >>

\* except socket.timeout: the wait of receive_ack ran into the deadline.
AckTimeout ==
    /\ pc = "wait"
    /\ acks_left > 0
    /\ now + SOCKET_TIMEOUT <= MaxTime
    /\ LET current_time == now + SOCKET_TIMEOUT
           stamps == Append(loss_timestamps, current_time)
           persistent_congestion ==
               IsPersistentCongestion(stamps, cc, acked_packets, packet_id,
                                      packets_in_window)
       IN  /\ now' = current_time
           /\ loss_timestamps' = StampsKept(stamps, persistent_congestion)
           /\ cc' = on_loss(cc, current_time, persistent_congestion, current_time)
           /\ last_call' =
                  Track(last_call,
                        Call("loss", cc, 0, 0, current_time,
                             persistent_congestion, 0),
                        on_loss(cc, current_time, persistent_congestion,
                                current_time))
           /\ expiry' = [ seen |-> TRUE, stamps |-> stamps,
                          estimated_rtt |-> cc.estimated_rtt,
                          dev_rtt |-> cc.dev_rtt,
                          first |-> window_start, next |-> packet_id,
                          budget |-> packets_in_window,
                          acked |-> acked_packets,
                          examined |-> ExaminedIds(stamps, cc, packet_id,
                                                   packets_in_window),
                          persistent |-> persistent_congestion ]
    /\ acks_left' = 0
    /\ pc' = "loop"
    /\ UNCHANGED << exc, num_packets, round_index, packet_sent, packet_times,
                    global_start_time, rtt_times, total_data_passed,
                    packet_id, acked_packets, sent_packets,
                    packets_in_window, window_start, acks_delivered, wire >>
    /\ UNCHANGED << is_test, report, ack_log, closed_on, recvVars, codec >>

TotalDataInPackets(acked) == Cardinality(acked)

\* total_data = len(acked_packets) * self.max_packet_size
TotalData(acked) == Cardinality(acked) * MAX_PACKET_SIZE

\* The secondary loop has ended: total_data_passed, the EOF packet and,
\* unless is_test, plot_results, whose prepare_data raises ValueError at
\* max(self.packet_times.keys()) when nothing was acknowledged.
EndRound ==
    /\ pc = "loop"
    /\ ~LoopContinues(packet_id, num_packets)
    /\ total_data_passed' = Append(total_data_passed, TotalData(acked_packets))
    /\ wire' = Append(wire, -1)
    /\ IF is_test
       THEN /\ pc' = "ask"
            /\ UNCHANGED << exc, report >>
       ELSE IF DOMAIN packet_times = {}
       THEN /\ pc' = "raised"
            /\ exc' = "ValueError"
            /\ UNCHANGED report
       ELSE /\ pc' = "ask"
            /\ report' = prepare_data(packet_times, cc)
            /\ UNCHANGED exc
    /\ UNCHANGED << cc, now, last_call, num_packets, round_index,
                    packet_sent, packet_times, global_start_time, rtt_times,
                    packet_id, loss_timestamps, acked_packets, sent_packets,
                    packets_in_window, acks_left, window_start, expiry,
                    acks_delivered >>
    /\ UNCHANGED << is_test, ack_log, closed_on, recvVars, codec >>

\* clear_socket_buffer: recv is repeated until it raises, so every datagram
\* the socket holds has been delivered when it returns.
Drained(delivered, buffer) == Max(delivered, Len(buffer))

\* input() answered with anything but "n": clear_socket_buffer() reads until a
\* recv runs into the deadline, then time.sleep(0.5).
SendAgain ==
    /\ pc = "ask"
    /\ round_index + 1 < MaxRounds
    /\ now + SOCKET_TIMEOUT + RESTART_SLEEP <= MaxTime
    /\ now' = now + SOCKET_TIMEOUT + RESTART_SLEEP
    /\ round_index' = round_index + 1
    /\ pc' = "round"
    /\ UNCHANGED << cc, last_call, exc, num_packets, packet_sent,
                    packet_times, global_start_time, rtt_times,
                    total_data_passed, packet_id, loss_timestamps,
                    acked_packets, sent_packets, packets_in_window, acks_left,
                    window_start, expiry, wire >>
    /\ acks_delivered' = Drained(acks_delivered, r_out)
    /\ report' = NoReport
    /\ UNCHANGED << is_test, ack_log, closed_on, recvVars, codec >>

\* input() answered "n": the main loop ends and close_session() sends END.
CloseSession ==
    /\ pc = "ask"
    /\ round_index' = round_index + 1
    /\ wire' = Append(wire, -2)
    /\ pc' = "closing"
    /\ UNCHANGED << cc, now, last_call, exc, num_packets, packet_sent,
                    packet_times, global_start_time, rtt_times,
                    total_data_passed, packet_id, loss_timestamps,
                    acked_packets, sent_packets, packets_in_window, acks_left,
                    window_start, expiry, acks_delivered >>
    /\ report' = NoReport
    /\ UNCHANGED << is_test, ack_log, closed_on, recvVars, codec >>

\* close_session: receive_ack() returns some datagram's id; the socket closes.
CloseAck ==
    /\ pc = "closing"
    /\ \E id \in AckIds : closed_on' = Append(closed_on, id)
    /\ pc' = "done"
    /\ UNCHANGED << cc, now, last_call, exc, num_packets, round_index,
                    packet_sent, packet_times, global_start_time, rtt_times,
                    total_data_passed, packet_id, loss_timestamps,
                    acked_packets, sent_packets, packets_in_window, acks_left,
                    window_start, expiry, acks_delivered, wire >>
    /\ UNCHANGED << is_test, report, ack_log, recvVars, codec >>

\* close_session: receive_ack() runs into the deadline; nothing catches the
\* socket.timeout, which leaves close_session and simulate.
CloseTimeout ==
    /\ pc = "closing"
    /\ now + SOCKET_TIMEOUT <= MaxTime
    /\ now' = now + SOCKET_TIMEOUT
    /\ pc' = "raised"
    /\ exc' = "timeout"
    /\ UNCHANGED << cc, last_call, num_packets, round_index,
                    packet_sent, packet_times, global_start_time, rtt_times,
                    total_data_passed, packet_id, loss_timestamps,
                    acked_packets, sent_packets, packets_in_window, acks_left,
                    window_start, expiry, acks_delivered, wire >>
    /\ UNCHANGED << is_test, report, ack_log, closed_on, recvVars, codec >>

Next ==
    \/ StartRound
    \/ SendWindow
    \/ ReceiveAck
    \/ AckTimeout
    \/ EndRound
    \/ SendAgain
    \/ CloseSession
    \/ CloseAck
    \/ CloseTimeout

Spec == Init /\ [][Next]_vars

(***************************************************************************)
(* AttemptSpec: one attempt of simulate, from reset() to the end-of-attempt *)
(* marker, with more packets than Spec sends, so that an attempt has more   *)
(* than two windows, against a channel that loses every acknowledgment but *)
(* one: all but one of the MaxAcks deliveries are spent from the start.     *)
(***************************************************************************)
AttemptInit ==
    /\ cc = NewReno
    /\ now = 1
    /\ last_call = Call("init", NewReno, 0, 0, 0, FALSE, 0)
    /\ pc = "round"
    /\ exc = "none"
    /\ num_packets \in 0..ManyPackets
    /\ round_index = 0
    /\ packet_sent = << >>
    /\ packet_times = << >>
    /\ global_start_time = None
    /\ rtt_times = << >>
    /\ total_data_passed = << >>
    /\ packet_id = 1
    /\ loss_timestamps = << >>
    /\ acked_packets = {}
    /\ sent_packets = 0
    /\ packets_in_window = 0
    /\ acks_left = 0
    /\ window_start = 1
    /\ expiry = NoExpiry
    /\ acks_delivered = MaxAcks - 1
    /\ wire = << >>
    /\ is_test \in BOOLEAN
    /\ report = NoReport
    /\ ack_log = << >>
    /\ closed_on = << >>
    /\ ReceiverIdle
    /\ CodecIdle

AttemptNext ==
    \/ StartRound
    \/ SendWindow
    \/ ReceiveAck
    \/ AckTimeout
    \/ EndRound

AttemptSpec == AttemptInit /\ [][AttemptNext]_vars

(***************************************************************************)
(* FairAttemptSpec: one attempt against the full channel, with the sender   *)
(* thread always scheduled.  Every blocking call of the attempt returns:    *)
(* sendto at once, recvfrom with a datagram or at the 0.75 s deadline.  The *)
(* attempts are those whose deadlines all fit before MaxTime.               *)
(***************************************************************************)
FairPackets == Min(MaxPackets, (MaxTime \div SOCKET_TIMEOUT) - 1)

FairAttemptInit == Init /\ num_packets <= FairPackets

FairAttemptSpec ==
    FairAttemptInit /\ [][AttemptNext]_vars /\ WF_vars(AttemptNext)

(***************************************************************************)
(* EstSpec: the RTT estimator on its own, at a finer scale.  Here a tick of *)
(* the clock is a microsecond and the estimator's unit a nanosecond, still  *)
(* RttUnits units to the tick, so that the test's numbers are whole.        *)
(***************************************************************************)
\* A millisecond in estimator units.
Millisecond == RttUnits * RttUnits

\* NewReno(): estimated_rtt = 0.1 ms, dev_rtt = 1.0 ms
EstFresh ==
    [ NewReno EXCEPT !.estimated_rtt = InitEstimatedRtt * RttUnits,
                     !.dev_rtt = InitDevRtt * RttUnits,
                     !.estimated_rtt_log = << InitEstimatedRtt * RttUnits >> ]

EstSamples ==
    { k * Millisecond : k \in (0..EstMaxSample) \cup {TestRttSample} }

EstInit ==
    /\ cc = EstFresh
    /\ now = 1
    /\ last_call = Call("init", EstFresh, 0, 0, 0, FALSE, 0)
    /\ SenderIdle("estimator")
    /\ ReceiverIdle
    /\ CodecIdle

\* update_rtt called with a sample in milliseconds, as the unit test does;
\* the rtt field of the record holds the sample.
EstUpdateRtt ==
    /\ Len(cc.rtt_var_log) < EstMaxCalls
    /\ \E rtt_sample \in EstSamples :
         /\ cc' = update_rtt(cc, rtt_sample)
         /\ last_call' = Track(last_call,
                               Call("rtt", cc, 0, rtt_sample, 0, FALSE, 0),
                               cc')
    /\ UNCHANGED << now, senderVars, recvVars, codec >>

\* on_ack called with the same round trip times, in ticks.
EstOnAck ==
    /\ Len(cc.rtt_var_log) < EstMaxCalls
    /\ \E rtt_sample \in EstSamples :
         LET rtt == rtt_sample \div RttUnits
         IN  /\ cc' = on_ack(cc, MAX_PACKET_SIZE, rtt, now)
             /\ last_call' = Track(last_call,
                                   Call("ack", cc, MAX_PACKET_SIZE, rtt, 0,
                                        FALSE, 0),
                                   cc')
    /\ UNCHANGED << now, senderVars, recvVars, codec >>

EstNext == EstUpdateRtt \/ EstOnAck

EstSpec == EstInit /\ [][EstNext]_vars

(***************************************************************************)
(* CodecSpec: an id written into a datagram and read back                  *)
(***************************************************************************)
RECURSIVE Pow10(_)
Pow10(k) == IF k = 0 THEN 1 ELSE 10 * Pow10(k - 1)

\* The ids tried: the powers of ten up to 10^CodecMaxExp, their neighbours,
\* and the negatives of all of them.
CodecMagnitudes == { Pow10(k) + j : k \in 0..CodecMaxExp, j \in -1..1 }

CodecIds == CodecMagnitudes \cup { 0 - m : m \in CodecMagnitudes }

CodecContents ==
    { << >>, START_CONTENT, EOF_CONTENT, END_CONTENT, DATA_CONTENT }

CodecInit ==
    /\ cc = NewReno
    /\ now = 1
    /\ last_call = Call("init", NewReno, 0, 0, 0, FALSE, 0)
    /\ SenderIdle("codec")
    /\ ReceiverIdle
    /\ codec \in { [NoCodec EXCEPT !.stage = "id", !.id = i] : i \in CodecIds }

\* packet_id_encoded + content.encode()
CodecEncode ==
    /\ codec.stage = "id"
    /\ \E content \in CodecContents :
         codec' = [codec EXCEPT !.stage = "packet",
                                !.packet = make_packet(codec.id, content)]
    /\ UNCHANGED << cc, now, last_call, senderVars, recvVars >>

\* int(packet[:8].decode().strip())
CodecDecode ==
    /\ codec.stage = "packet"
    /\ LET read == packet_id_of(codec.packet)
       IN  codec' = [codec EXCEPT !.stage = "decoded",
                                  !.raised = read.raised,
                                  !.decoded = read.value]
    /\ UNCHANGED << cc, now, last_call, senderVars, recvVars >>

CodecNext == CodecEncode \/ CodecDecode

CodecSpec == CodecInit /\ [][CodecNext]_vars

(***************************************************************************)
(* RecvSpec: QuicReceiver.start_receiver and receive_data                  *)
(***************************************************************************)
CONNECT == << "C", "O", "N", "N", "E", "C", "T" >>

\* The ids the sender's datagrams may carry.
RecvIds == {-2, -1} \cup (0..MaxRecvId)

RecvContents == { START_CONTENT, EOF_CONTENT, END_CONTENT, DATA_CONTENT }

RecvInit ==
    /\ cc = NewReno
    /\ now = 1
    /\ last_call = Call("init", NewReno, 0, 0, 0, FALSE, 0)
    /\ SenderIdle("receiver")
    /\ r_pc = "start"
    /\ ReceiverConstructed
    /\ CodecIdle

\* start_receiver: the CONNECT message.
RecvConnect ==
    /\ r_pc = "start"
    /\ r_out' = Append(r_out, CONNECT)
    /\ r_pc' = "handshake"
    /\ UNCHANGED << r_packet_id, received_packets, lock, ack_threads,
                    r_timeout, r_open, r_accepted, r_decided, r_in >>
    /\ UNCHANGED << cc, now, last_call, senderVars, codec >>

\* start_receiver's recvfrom returns the sender's first datagram, unread;
\* receive_data begins with settimeout(timeout).
RecvHandshake ==
    /\ r_pc = "handshake"
    /\ r_in < MaxInbound
    /\ r_in' = r_in + 1
    /\ r_timeout' = "timeout"
    /\ r_pc' = "recv"
    /\ UNCHANGED << r_packet_id, received_packets, lock, ack_threads, r_out,
                    r_open, r_accepted, r_decided >>
    /\ UNCHANGED << cc, now, last_call, senderVars, codec >>

IsEndOfAttempt(id) == id = -1

AfterDrawAlwaysOn(accepted) == "lock"

\* if draw < self.loss_threshold: a delay is drawn and the loop goes on to the
\* sleep and the lock; else: continue, back to the recvfrom of the loop.
AfterDraw(accepted) == IF accepted THEN "lock" ELSE "recv"

\* The recvfrom of the loop returns a datagram. The end marker disables the
\* timeout and sends the loop to its second recvfrom; any other id is drawn
\* for: it is dropped (continue) or, after the sleep, goes on to the lock.
RecvPacketOf(id, content, accepted) ==
    /\ r_pc = "recv"
    /\ r_in < MaxInbound
    /\ r_in' = r_in + 1
    /\   LET read == packet_id_of(make_packet(id, content))
         IN  /\ ~read.raised
             /\ r_packet_id' = read.value
             /\ IF IsEndOfAttempt(read.value)
                THEN /\ r_timeout' = "none"
                     /\ r_pc' = "decide"
                     /\ UNCHANGED r_accepted
                ELSE /\ r_accepted' = IF accepted
                                      THEN Append(r_accepted, read.value)
                                      ELSE r_accepted
                     /\ r_pc' = AfterDraw(accepted)
                     /\ UNCHANGED r_timeout
    /\ UNCHANGED << received_packets, lock, ack_threads, r_out, r_open,
                    r_decided >>
    /\ UNCHANGED << cc, now, last_call, senderVars, codec >>

\* The receiver socket's next datagram is any of the sender's datagrams.
RecvPacket ==
    \E id \in RecvIds, content \in RecvContents, accepted \in BOOLEAN :
       RecvPacketOf(id, content, accepted)

\* except socket.timeout: raise socket.timeout("Socket timed out")
RecvTimeout ==
    /\ r_pc = "recv"
    /\ r_timeout = "timeout"
    /\ r_pc' = "raised"
    /\ UNCHANGED << r_packet_id, received_packets, lock, ack_threads, r_out,
                    r_timeout, r_open, r_accepted, r_decided, r_in >>
    /\ UNCHANGED << cc, now, last_call, senderVars, codec >>

IsEndOfSessionOrAttempt(id) == id < 0

\* if packet_id == -2
IsEndOfSession(id) == id = -2

\* The recvfrom after an end marker returns a datagram. On -2 close_session
\* runs: send_ack(-2) on the loop's own thread, the socket is closed and
\* receive_data returns. Otherwise the timeout is set again and the loop
\* continues.
RecvDecideOf(id, content) ==
    /\ r_pc = "decide"
    /\ r_in < MaxInbound
    /\ r_in' = r_in + 1
    /\   LET read == packet_id_of(make_packet(id, content))
         IN  /\ ~read.raised
             /\ r_packet_id' = read.value
             /\ r_decided' = Append(r_decided, read.value)
             /\ IF IsEndOfSession(read.value)
                THEN /\ r_out' = Append(r_out, make_ack_packet(-2))
                     /\ r_open' = FALSE
                     /\ r_pc' = "returned"
                     /\ UNCHANGED r_timeout
                ELSE /\ r_timeout' = "timeout"
                     /\ r_pc' = "recv"
                     /\ UNCHANGED << r_out, r_open >>
    /\ UNCHANGED << received_packets, lock, ack_threads, r_accepted >>
    /\ UNCHANGED << cc, now, last_call, senderVars, codec >>

RecvDecide ==
    \E id \in RecvIds, content \in RecvContents : RecvDecideOf(id, content)

RecvEnterUnlocked ==
    /\ r_pc = "lock"
    /\ r_pc' = "add"
    /\ UNCHANGED << r_packet_id, received_packets, lock, ack_threads, r_out,
                    r_timeout, r_open, r_accepted, r_decided, r_in >>
    /\ UNCHANGED << cc, now, last_call, senderVars, codec >>

\* with self.lock: the loop's thread takes the lock.
RecvAcquire ==
    /\ r_pc = "lock"
    /\ lock = "free"
    /\ lock' = "main"
    /\ r_pc' = "add"
    /\ UNCHANGED << r_packet_id, received_packets, ack_threads, r_out,
                    r_timeout, r_open, r_accepted, r_decided, r_in >>
    /\ UNCHANGED << cc, now, last_call, senderVars, codec >>

\* self.received_packets.add(packet_id), and the lock released on leaving
\* the with block.
RecvAdd ==
    /\ r_pc = "add"
    /\ received_packets' = received_packets \cup {r_packet_id}
    /\ lock' = "free"
    /\ r_pc' = "spawn"
    /\ UNCHANGED << r_packet_id, ack_threads, r_out, r_timeout, r_open,
                    r_accepted, r_decided, r_in >>
    /\ UNCHANGED << cc, now, last_call, senderVars, codec >>

\* threading.Thread(target=self.send_ack, ...).start()
RecvSpawn ==
    /\ r_pc = "spawn"
    /\ ack_threads' = Append(ack_threads, r_packet_id)
    /\ r_pc' = "recv"
    /\ UNCHANGED << r_packet_id, received_packets, lock, r_out, r_timeout,
                    r_open, r_accepted, r_decided, r_in >>
    /\ UNCHANGED << cc, now, last_call, senderVars, codec >>

\* s without its i-th element
Without(s, i) == SubSeq(s, 1, i - 1) \o SubSeq(s, i + 1, Len(s))

\* A started send_ack thread runs: make_ack_packet and sendto. On a socket
\* that close_session has closed sendto raises OSError inside the thread and
\* nothing is sent.
AckThread ==
    /\ \E i \in DOMAIN ack_threads :
         /\ r_out' = IF r_open
                     THEN Append(r_out, make_ack_packet(ack_threads[i]))
                     ELSE r_out
         /\ ack_threads' = Without(ack_threads, i)
    /\ UNCHANGED << r_pc, r_packet_id, received_packets, lock, r_timeout,
                    r_open, r_accepted, r_decided, r_in >>
    /\ UNCHANGED << cc, now, last_call, senderVars, codec >>

RecvNext ==
    \/ RecvConnect
    \/ RecvHandshake
    \/ RecvPacket
    \/ RecvTimeout
    \/ RecvDecide
    \/ RecvAcquire
    \/ RecvAdd
    \/ RecvSpawn
    \/ AckThread

RecvSpec == RecvInit /\ [][RecvNext]_vars

(***************************************************************************)
(* SessionSpec: one sender and one receiver on the loopback sockets.  The  *)
(* sender's datagrams reach the receiver socket in sending order: the      *)
(* receiver has read wire[1..r_in].  The receiver's datagrams reach the    *)
(* sender socket in sending order: the sender has read                     *)
(* r_out[1..acks_delivered].  A recvfrom returns the next datagram when    *)
(* the socket holds one and runs into its deadline when it holds none; the *)
(* receiver's sleeps and the send_ack threads take any time.               *)
(***************************************************************************)
\* The sender is constructed and listens; the receiver is constructed and
\* has not sent CONNECT yet.
SessionInit ==
    /\ cc = NewReno
    /\ now = 1
    /\ last_call = Call("init", NewReno, 0, 0, 0, FALSE, 0)
    /\ pc = "listen"
    /\ exc = "none"
    /\ num_packets \in 1..MaxPackets
    /\ round_index = 0
    /\ packet_sent = << >>
    /\ packet_times = << >>
    /\ global_start_time = None
    /\ rtt_times = << >>
    /\ total_data_passed = << >>
    /\ packet_id = 1
    /\ loss_timestamps = << >>
    /\ acked_packets = {}
    /\ sent_packets = 0
    /\ packets_in_window = 0
    /\ acks_left = 0
    /\ window_start = 1
    /\ expiry = NoExpiry
    /\ acks_delivered = 0
    /\ wire = << >>
    /\ is_test = TRUE
    /\ report = NoReport
    /\ ack_log = << >>
    /\ closed_on = << >>
    /\ r_pc = "start"
    /\ ReceiverConstructed
    /\ CodecIdle

\* The content the sender puts after the id: "S" after 0, "EOF" after -1,
\* "END" after -2 and the packet's data after a data id.
ContentOf(id) ==
    CASE id = 0  -> START_CONTENT
      [] id = -1 -> EOF_CONTENT
      [] id = -2 -> END_CONTENT
      [] OTHER   -> DATA_CONTENT

\* The sender socket holds a datagram that has not been read.
SenderSocketHolds == acks_delivered < Len(r_out)

\* The receiver socket holds a datagram that has not been read.
ReceiverSocketHolds == r_in < Len(wire)

\* The id int(ack_data.decode().strip()) reads from the next datagram of the
\* sender socket.
NextAck == packet_id_of(r_out[acks_delivered + 1])

\* listen: recvfrom returns the receiver's first datagram and, the data
\* being non-empty, listen returns; simulate is called next.
SessionListen ==
    /\ pc = "listen"
    /\ SenderSocketHolds
    /\ Len(r_out[acks_delivered + 1]) > 0
    /\ acks_delivered' = acks_delivered + 1
    /\ pc' = "round"
    /\ UNCHANGED << cc, now, last_call, exc, num_packets, round_index,
                    packet_sent, packet_times, global_start_time, rtt_times,
                    total_data_passed, packet_id, loss_timestamps,
                    acked_packets, sent_packets, packets_in_window, acks_left,
                    window_start, expiry, wire >>
    /\ UNCHANGED << is_test, report, ack_log, closed_on, recvVars, codec >>

\* receive_ack in a window wait: the next datagram of the socket.
SessionReceiveAck ==
    /\ SenderSocketHolds
    /\ ~NextAck.raised
    /\ \E d \in 0..MaxDelay : ReceiveAckOf(NextAck.value, d)

\* receive_ack in a window wait runs into the deadline: the socket is empty.
SessionAckTimeout == ~SenderSocketHolds /\ AckTimeout

\* close_session: receive_ack returns the next datagram of the socket.
SessionCloseAck ==
    /\ SenderSocketHolds
    /\ ~NextAck.raised
    /\ CloseAck
    /\ Last(closed_on') = NextAck.value

\* close_session: receive_ack runs into the deadline on an empty socket.
SessionCloseTimeout == ~SenderSocketHolds /\ CloseTimeout

\* start_receiver's recvfrom returns the sender's first datagram.
SessionRecvHandshake == ReceiverSocketHolds /\ RecvHandshake

\* The recvfrom of the receiver's loop returns the next datagram.
SessionRecvPacket ==
    /\ ReceiverSocketHolds
    /\ \E accepted \in BOOLEAN :
         RecvPacketOf(wire[r_in + 1], ContentOf(wire[r_in + 1]), accepted)

\* The recvfrom of the receiver's loop runs into its deadline.
SessionRecvTimeout == ~ReceiverSocketHolds /\ RecvTimeout

\* The recvfrom after an end marker returns the next datagram.
SessionRecvDecide ==
    /\ ReceiverSocketHolds
    /\ RecvDecideOf(wire[r_in + 1], ContentOf(wire[r_in + 1]))

SessionNext ==
    \/ SessionListen
    \/ StartRound
    \/ SendWindow
    \/ SessionReceiveAck
    \/ SessionAckTimeout
    \/ EndRound
    \/ SendAgain
    \/ CloseSession
    \/ SessionCloseAck
    \/ SessionCloseTimeout
    \/ RecvConnect
    \/ SessionRecvHandshake
    \/ SessionRecvPacket
    \/ SessionRecvTimeout
    \/ SessionRecvDecide
    \/ RecvAcquire
    \/ RecvAdd
    \/ RecvSpawn
    \/ AckThread

SessionSpec == SessionInit /\ [][SessionNext]_vars

(***************************************************************************)
(* Claims about the controller, checked under CtlSpec                      *)
(***************************************************************************)
\* a <= b for slow start thresholds, float('inf') being the largest
SsLeq(a, b) == b = Infinity \/ (a # Infinity /\ a <= b)

\* C1: whatever on_ack and on_loss calls were made, the congestion window is
\* at least two maximum segment sizes.
C1_WindowAtLeastTwoSegments == cc.congestion_window >= 2 * 1500

\* C1 witness: a loss halved a window whose half is below the floor.
C1_Witness ==
    /\ last_call.op = "loss"
    /\ ~last_call.persistent
    /\ last_call.pre.congestion_window > 2 * 1500
    /\ last_call.pre.congestion_window \div 2 < 2 * 1500
    /\ cc.congestion_window = 2 * 1500

\* C2 as stated: no on_ack or on_loss step leaves ssthresh larger than it was
\* before the step.
C2_SsthreshNeverIncreases ==
    last_call.op \in {"ack", "loss"} =>
        SsLeq(cc.ssthresh, last_call.pre.ssthresh)

\* C2 amended: on_ack never changes ssthresh; on_loss leaves it alone when the
\* controller is already in a recovery covering time_sent and otherwise sets
\* it to max(floor(window / 2), 2 * MSS) of the window before the call, which
\* may exceed the previous finite value; once finite it is never infinite again.
C2_SsthreshSetOnlyOnRecoveryEntry ==
    LET p == last_call.pre
        covered == p.recovery_start_time # 0
                   /\ p.recovery_start_time >= last_call.time_sent
        half == p.congestion_window \div 2
    IN  /\ last_call.op = "ack" => cc.ssthresh = p.ssthresh
        /\ last_call.op = "loss" /\ covered => cc.ssthresh = p.ssthresh
        /\ last_call.op = "loss" /\ ~covered =>
               cc.ssthresh = (IF half >= 2 * 1500 THEN half ELSE 2 * 1500)
        /\ p.ssthresh # Infinity => cc.ssthresh # Infinity

\* C2 witness: a loss raised a finite ssthresh.
C2_Witness ==
    /\ last_call.op = "loss"
    /\ last_call.pre.ssthresh # Infinity
    /\ cc.ssthresh > last_call.pre.ssthresh

\* C3: get_congestion_state returns 2 iff recovery_start_time is set, else 0
\* iff the window is below ssthresh and no loss is flagged, else 1; a window
\* equal to ssthresh gives 1 and a fresh controller gives 0.
C3_StateDerivation ==
    last_call.op = "state" =>
        LET c == last_call.pre
            below == c.ssthresh = Infinity \/ c.congestion_window < c.ssthresh
        IN  /\ (last_call.result = 2) <=> (c.recovery_start_time # 0)
            /\ c.recovery_start_time = 0 =>
                   /\ (last_call.result = 0) <=> (below /\ ~c.loss_detected)
                   /\ (last_call.result = 1) <=> ~(below /\ ~c.loss_detected)
            /\ c = NewReno => last_call.result = 0

\* C3 witness: the state was asked for with the window equal to ssthresh, no
\* recovery and no loss flagged.
C3_Witness ==
    /\ last_call.op = "state"
    /\ last_call.pre.congestion_window = last_call.pre.ssthresh
    /\ last_call.pre.recovery_start_time = 0
    /\ ~last_call.pre.loss_detected
    /\ last_call.result = 1

\* C10: on_ack adds MSS and keeps loss_detected when the window is below
\* ssthresh, and otherwise adds floor(MSS * acked_bytes / window), computed
\* with the window before the update, and clears loss_detected; on a fresh
\* controller on_ack(MSS, rtt) gives 3 * MSS and logs 3 segments.
C10_OnAckWindowUpdate ==
    last_call.op = "ack" =>
        LET p == last_call.pre
            below == p.ssthresh = Infinity \/ p.congestion_window < p.ssthresh
        IN  /\ below =>
                 /\ cc.congestion_window = p.congestion_window + 1500
                 /\ cc.loss_detected = p.loss_detected
            /\ ~below =>
                 /\ cc.congestion_window = p.congestion_window
                        + (1500 * last_call.acked_bytes) \div p.congestion_window
                 /\ cc.loss_detected = FALSE
            /\ p = NewReno /\ last_call.acked_bytes = 1500 =>
                 /\ cc.congestion_window = 3 * 1500
                 /\ Last(cc.cwnd_log) = [whole |-> 3, part |-> 0]

\* C10 witness: an on_ack took the linear branch with a loss flagged.
C10_Witness ==
    /\ last_call.op = "ack"
    /\ last_call.pre.ssthresh # Infinity
    /\ last_call.pre.congestion_window >= last_call.pre.ssthresh
    /\ last_call.pre.loss_detected
    /\ last_call.acked_bytes > 0
    /\ cc.congestion_window > last_call.pre.congestion_window
    /\ ~cc.loss_detected

C4_AckedSubsetOfSent ==
    /\ DOMAIN packet_times \subseteq DOMAIN packet_sent
    /\ acked_packets \subseteq DOMAIN packet_sent

\* C4 witness: in a second round, after an acknowledgment was recorded, an
\* acknowledgment arrived for an id not sent in that round.
C4_Witness ==
    /\ round_index = 1
    /\ acked_packets # {}
    /\ pc = "raised"
    /\ exc = "KeyError"

\* C5: the data ids handed to the socket in a round are 1, 2, ... in order,
\* each once, also after an acknowledgment wait timed out, and every round
\* starts again at 1 after its start marker.
C5_IdsConsecutiveFromOne ==
    /\ \A i \in 1..Len(wire) :
         wire[i] >= 1 =>
            /\ i > 1
            /\ \/ wire[i] = 1 /\ wire[i - 1] = 0
               \/ wire[i - 1] >= 1 /\ wire[i] = wire[i - 1] + 1
    /\ DOMAIN packet_sent = 1..(packet_id - 1)

\* C5 witness: a second round sent its last id after a deadline expiry of
\* that round.
C5_Witness ==
    /\ round_index = 1
    /\ expiry.seen
    /\ num_packets = 3
    /\ wire[Len(wire)] = 3

\* C6 as stated: when the loop has ended and the end-of-attempt marker is
\* sent, every id of the round is acknowledged.
C6_AllAckedAtEndMarker ==
    pc = "ask" => (1..num_packets) \subseteq acked_packets

\* C6 amended: when the loop has ended and the end-of-attempt marker is sent,
\* every id in 1..num_packets has been sent in that round; the acknowledged
\* ids are among them and need not be all of them.
C6_AllSentAtEndMarker ==
    pc = "ask" =>
        /\ wire[Len(wire)] = -1
        /\ DOMAIN packet_sent = 1..num_packets
        /\ acked_packets \subseteq 1..num_packets

\* C6 witness: the end marker was sent with an id of the round unacknowledged
\* after a deadline expiry.
C6_Witness ==
    /\ pc = "ask"
    /\ num_packets = 3
    /\ expiry.seen
    /\ acked_packets = {1, 2}

\* C7: no acknowledgment-wait timeout leaves simulate, neither from a window
\* wait nor from the wait for the end-of-session acknowledgment.
C7_TimeoutNeverPropagates == exc # "timeout"

\* C8: a deadline expiry is classified persistent congestion iff at least
\* two loss timestamps are recorded, the last two are closer than
\* estimated_rtt + 8 * rtt_deviation, and none of the ids sent in the current
\* window is acknowledged; the timestamps are emptied on a positive
\* classification and kept on a negative one.
C8_PersistentClassification ==
    expiry.seen =>
        LET n == Len(expiry.stamps)
            sent_in_window == expiry.first..(expiry.next - 1)
        IN  /\ expiry.persistent <=>
                 /\ n >= 2
                 /\ expiry.stamps[n] - expiry.stamps[n - 1]
                        < expiry.estimated_rtt + 8 * expiry.dev_rtt
                 /\ sent_in_window \cap expiry.acked = {}
            /\ expiry.persistent => loss_timestamps = << >>
            /\ ~expiry.persistent => loss_timestamps = expiry.stamps

\* C9: right after the on_loss call of an expiry classified persistent
\* congestion the window is 2 * MSS, recovery_start_time is unset and
\* loss_detected is false, also when the controller was in Recovery.
C9_PersistentResetsWindow ==
    last_call.op = "loss" /\ last_call.persistent =>
        /\ cc.congestion_window = 2 * 1500
        /\ cc.recovery_start_time = 0
        /\ cc.loss_detected = FALSE

\* C9 witness: an expiry was classified persistent congestion while the
\* controller was in Recovery.
C9_Witness ==
    /\ last_call.op = "loss"
    /\ last_call.persistent
    /\ last_call.pre.recovery_start_time # 0
    /\ cc.congestion_window = 2 * 1500

C13_DatagramOrder ==
    /\ \A i \in 1..Len(wire) :
         /\ i = 1 => wire[i] = 0
         /\ (i > 1 /\ wire[i] = 0) => wire[i - 1] = -1
         /\ wire[i] >= 1 => (i > 1 /\ wire[i - 1] >= 0)
         /\ wire[i] = -1 => (i > 1 /\ wire[i - 1] = num_packets)
         /\ wire[i] = -2 => (i > 1 /\ wire[i - 1] = -1 /\ i = Len(wire))
         /\ (i > 1 /\ wire[i - 1] = -1) => wire[i] \in {0, -2}
    /\ pc \in {"closing", "done"} => wire[Len(wire)] = -2

\* C13 witness: a session of two rounds of two packets has ended.
C13_Witness ==
    /\ pc = "done"
    /\ wire = << 0, 1, 2, -1, 0, 1, 2, -1, -2 >>

\* C14: close_session sends one end-of-session datagram, "-0000002" followed
\* by "END", closes the socket once, and closes it only on having received
\* the acknowledgment that echoes -2.
C14_ClosesOnEndAck ==
    /\ END_PACKET = << "-", "0", "0", "0", "0", "0", "0", "2", "E", "N", "D" >>
    /\ Cardinality({ i \in DOMAIN wire : wire[i] = -2 }) <= 1
    /\ Len(closed_on) <= 1
    /\ pc = "done" => (Len(closed_on) = 1 /\ wire[Len(wire)] = -2)
    /\ \A i \in DOMAIN closed_on : closed_on[i] = -2

\* C18: every round that ran to its end appended one entry to
\* total_data_passed, the number of distinct ids acknowledged in the round
\* times MSS, which is at most num_packets * MSS; after k rounds there are k
\* entries.
C18_OneEntryPerAttempt ==
    LET ended == Cardinality({ i \in DOMAIN wire : wire[i] = -1 })
    IN  /\ Len(total_data_passed) = ended
        /\ \A i \in DOMAIN total_data_passed :
             \E k \in 0..num_packets : total_data_passed[i] = k * 1500
        /\ pc = "round" => Len(total_data_passed) = round_index
        /\ pc = "ask" =>
             /\ Len(total_data_passed) = round_index + 1
             /\ total_data_passed[Len(total_data_passed)]
                    = Cardinality(acked_packets) * 1500

\* C18 witness: a second round ended with one id acknowledged twice, after a
\* first round with nothing acknowledged.
C18_Witness ==
    /\ pc = "ask"
    /\ round_index = 1
    /\ total_data_passed = << 0, 1500 >>
    /\ Len(ack_log) = 2

\* C19: what prepare_data returns has one entry per acknowledgment of the
\* round, and its i-th measured rtt, estimated rtt, deviation, state and
\* window are the ones the i-th acknowledgment recorded.
C19_ReportAlignedWithAcks ==
    (pc = "ask" /\ report.made) =>
        /\ report.min_length = Len(ack_log)
        /\ Len(report.rtt_log) = Len(ack_log)
        /\ Len(report.estimated_rtt_log) = Len(ack_log)
        /\ Len(report.dev_rtt) = Len(ack_log)
        /\ Len(report.state_log) = Len(ack_log)
        /\ Len(report.cwnd_log) = Len(ack_log)
        /\ \A i \in DOMAIN ack_log :
             /\ report.rtt_log[i] = ack_log[i].rtt
             /\ report.estimated_rtt_log[i] = ack_log[i].estimated_rtt
             /\ report.dev_rtt[i] = ack_log[i].dev_rtt
             /\ report.state_log[i] = ack_log[i].state
             /\ report.cwnd_log[i] = ack_log[i].cwnd

(***************************************************************************)
(* Claims about the id field, checked under CodecSpec                      *)
(***************************************************************************)
\* C17 as stated: for every id from -99999999 to 99999999 the id read from
\* the first 8 characters of its datagram is the id.
C17_RoundTripEightDigits ==
    ( /\ codec.stage = "decoded"
      /\ codec.id >= -99999999
      /\ codec.id <= 99999999 )
    => (~codec.raised /\ codec.decoded = codec.id)

\* C17 amended: for every id from -9999999 to 99999999 the id field is 8
\* characters, a negative id's sign is its first character, and the id read
\* from the first 8 characters of the datagram is the id; a negative id of 8
\* digits is written in 9 characters and is not read back.
C17_RoundTripSignInField ==
    /\ ( /\ codec.stage = "decoded"
         /\ codec.id >= -9999999
         /\ codec.id <= 99999999 )
       => /\ ~codec.raised
          /\ codec.decoded = codec.id
          /\ Len(codec.packet) >= 8
          /\ \A i \in 2..8 : codec.packet[i] \in DigitChars
          /\ codec.id < 0 <=> codec.packet[1] = "-"
    /\ ( /\ codec.stage = "decoded"
         /\ codec.id >= -99999999
         /\ codec.id < -9999999 )
       => codec.decoded # codec.id

\* C17 witness: the largest negative id that fits was read back from a
\* datagram with content after the field.
C17_Witness ==
    /\ codec.stage = "decoded"
    /\ codec.id = -9999999
    /\ codec.decoded = -9999999
    /\ Len(codec.packet) = 9

(***************************************************************************)
(* Claims about the receiver, checked under RecvSpec                       *)
(***************************************************************************)
\* C15: every accepted packet gets one acknowledgment, which echoes its id
\* (counting the acceptances still on their way to sendto); an acknowledged
\* id is in received_packets by the time its acknowledgment is sent; and when
\* receive_data has returned through close_session and no thread is left, the
\* datagrams sent since the handshake are as many as the accepted packets
\* plus the final acknowledgment.
C15_OneAckPerAcceptedPacket ==
    LET sent      == { i \in DOMAIN r_out : r_out[i] # CONNECT }
        data_acks == IF r_open THEN sent ELSE sent \ {Len(r_out)}
        underway(id) ==
            Cardinality({ i \in DOMAIN ack_threads : ack_threads[i] = id })
            + (IF r_pc \in {"lock", "add", "spawn"} /\ r_packet_id = id
               THEN 1 ELSE 0)
        acks(id) ==
            Cardinality({ i \in data_acks : packet_id_of(r_out[i]).value = id })
        accepted(id) ==
            Cardinality({ i \in DOMAIN r_accepted : r_accepted[i] = id })
    IN  /\ \A id \in RecvIds :
             acks(id) + underway(id) = accepted(id)
        /\ \A i \in data_acks :
             packet_id_of(r_out[i]).value \in received_packets
        /\ (r_pc = "returned" /\ ack_threads = << >>) =>
             Cardinality(sent) = Len(r_accepted) + 1

\* C16: the datagram read after an end-of-attempt marker decides: on -2 the
\* receiver sends one acknowledgment "-0000002", closes the socket and
\* receive_data returns; on any other id the loop goes on with the timeout
\* set again, and nothing is sent, started or added for that datagram.
C16_DecidingDatagram ==
    [][ (r_pc = "decide" /\ r_pc' # "decide") =>
          /\ r_packet_id' = -2 =>
               /\ r_out' = Append(r_out,
                      << "-", "0", "0", "0", "0", "0", "0", "2" >>)
               /\ r_open' = FALSE
               /\ r_pc' = "returned"
          /\ r_packet_id' # -2 =>
               /\ r_pc' = "recv"
               /\ r_timeout' = "timeout"
               /\ r_open' = TRUE
               /\ r_out' = r_out
               /\ ack_threads' = ack_threads
               /\ r_accepted' = r_accepted
               /\ received_packets' = received_packets
      ]_vars

\* C16 witness: after one end-of-attempt marker the start marker of a new
\* attempt decided, after the next one the end-of-session marker.
C16_Witness ==
    /\ r_pc = "returned"
    /\ r_decided = << 0, -2 >>
    /\ r_out = << CONNECT, << "-", "0", "0", "0", "0", "0", "0", "2" >> >>
    /\ ~r_open

\* C20: received_packets changes only in a step of the receive loop that
\* holds the lock; while the loop is at the access the lock is held by it;
\* no send_ack thread ever holds the lock or changes the set.
C20_SetGuardedByLock ==
    [][ /\ received_packets' # received_packets =>
               (lock = "main" /\ r_pc = "add")
        /\ r_pc = "add" => lock = "main"
        /\ lock \in {"free", "main"}
        /\ Len(ack_threads') < Len(ack_threads) =>
               (received_packets' = received_packets /\ lock' = lock)
      ]_vars

\* C20 witness: the loop is inside the access, holding the lock, while a
\* send_ack thread of an earlier packet has not sent yet.
C20_Witness ==
    /\ r_pc = "add"
    /\ lock = "main"
    /\ ack_threads # << >>
    /\ r_packet_id \notin received_packets

(***************************************************************************)
(* Claims about the controller, checked under CtlSpec (continued)          *)
(***************************************************************************)
\* C21: get_congestion_state is pure and idempotent. While the last call made
\* on the controller is get_congestion_state, every field and every log of the
\* controller is what it was before that call, and all the consecutive calls
\* made since the last on_ack or on_loss returned the same value.
C21_GetStateIsPure ==
    last_call.op = "state" =>
      /\ cc = last_call.pre
      /\ Len(last_call.results) >= 1
      /\ \A i \in DOMAIN last_call.results :
            last_call.results[i] = last_call.results[1]
      /\ last_call.result = last_call.results[1]

\* Two consecutive calls in recovery, after an on_ack, both returning 2.
C21_Witness ==
    /\ last_call.op = "state"
    /\ last_call.results = << 2, 2 >>
    /\ last_call.acks >= 1
    /\ Len(cc.state_log) = last_call.acks + last_call.losses + 1

\* C22: max_ssthresh is the maximum of the slow start threshold. Once a loss
\* has entered recovery, so that ssthresh has held a finite value, max_ssthresh
\* equals the largest finite ssthresh value set by the calls made so far.
C22_MaxSsthreshIsLargest ==
    last_call.peak > 0 => cc.max_ssthresh = last_call.peak

\* C24: on_loss called while a recovery covering time_sent is in progress
\* (recovery_start_time set and >= time_sent) reduces nothing, whatever the
\* value of is_persistent_congestion: the controller after the call is the
\* controller before it with loss_detected true and one state, Recovery,
\* appended to the state log; in particular congestion_window, ssthresh,
\* max_ssthresh and recovery_start_time are unchanged.
C24_CoveredLossChangesNothing ==
    ( /\ last_call.op = "loss"
      /\ last_call.pre.recovery_start_time # 0
      /\ last_call.pre.recovery_start_time >= last_call.time_sent )
    => /\ cc = [ last_call.pre EXCEPT
                   !.loss_detected = TRUE,
                   !.state_log = Append(@, 2) ]
       /\ cc.congestion_window = last_call.pre.congestion_window
       /\ cc.ssthresh = last_call.pre.ssthresh
       /\ cc.max_ssthresh = last_call.pre.max_ssthresh
       /\ cc.recovery_start_time = last_call.pre.recovery_start_time

\* A covered loss reported as persistent congestion, for a packet sent at the
\* very time recovery started, with a window that could have been halved.
C24_Witness ==
    /\ last_call.op = "loss"
    /\ last_call.persistent
    /\ last_call.pre.recovery_start_time = last_call.time_sent
    /\ ~last_call.pre.loss_detected
    /\ cc.congestion_window > 3000
    /\ cc.loss_detected

\* C25: recovery_start_time changes only in these ways.  It takes a new set
\* value only in an on_loss call that enters recovery without persistent
\* congestion, and the value is the time of the call.  It goes from set to
\* unset only in an on_ack call made at a time later than recovery_start_time
\* plus the round trip time of that acknowledgment, or in an on_loss call with
\* persistent congestion.  An on_ack call made no later than that leaves it
\* as it is, and no step other than these calls changes it.
C25_RecoveryStartTimeTransitions ==
    [][ LET old     == cc.recovery_start_time
            new     == cc'.recovery_start_time
            is_ack  == last_call'.op = "ack"
                       /\ last_call'.acks = last_call.acks + 1
            is_loss == last_call'.op = "loss"
                       /\ last_call'.losses = last_call.losses + 1
        IN  /\ (new # old /\ new # 0)
               => ( /\ is_loss
                    /\ ~last_call'.persistent
                    /\ ~(old # 0 /\ old >= last_call'.time_sent)
                    /\ new = now )
            /\ (old # 0 /\ new = 0)
               => \/ is_ack /\ now > old + last_call'.rtt
                  \/ is_loss /\ last_call'.persistent
                     /\ old < last_call'.time_sent
            /\ (is_ack /\ ~(now > old + last_call'.rtt)) => new = old
            /\ (~is_ack /\ ~is_loss) => new = old
      ]_vars

\* An on_ack call at exactly recovery_start_time + rtt: recovery goes on.
C25_Witness ==
    /\ last_call.op = "ack"
    /\ last_call.rtt = 1
    /\ last_call.pre.recovery_start_time # 0
    /\ now = last_call.pre.recovery_start_time + 1
    /\ cc.recovery_start_time = last_call.pre.recovery_start_time

\* C30: the four logs of the controller are append-only.  After a on_ack calls
\* and l on_loss calls on a fresh controller cwnd_log and rtt_var_log have a
\* entries, estimated_rtt_log a + 1 and state_log a + l + 1.  An on_ack call
\* appends to cwnd_log the window it leaves, in segments, to estimated_rtt_log
\* the estimate it leaves, to rtt_var_log the deviation it leaves and to
\* state_log the state it leaves; an on_loss call appends the state it leaves
\* to state_log and nothing to the other logs.
C30_LogsGrowByCall ==
    [][ LET a       == last_call'.acks
            l       == last_call'.losses
            is_ack  == last_call'.op = "ack" /\ a = last_call.acks + 1
            is_loss == last_call'.op = "loss" /\ l = last_call.losses + 1
            state   == IF cc'.recovery_start_time # 0 THEN 2
                       ELSE IF (cc'.ssthresh = -1
                                \/ cc'.congestion_window < cc'.ssthresh)
                               /\ ~cc'.loss_detected THEN 0
                       ELSE 1
        IN  /\ Len(cc'.cwnd_log) = a
            /\ Len(cc'.rtt_var_log) = a
            /\ Len(cc'.estimated_rtt_log) = a + 1
            /\ Len(cc'.state_log) = a + l + 1
            /\ SubSeq(cc'.cwnd_log, 1, Len(cc.cwnd_log)) = cc.cwnd_log
            /\ SubSeq(cc'.rtt_var_log, 1, Len(cc.rtt_var_log)) = cc.rtt_var_log
            /\ SubSeq(cc'.estimated_rtt_log, 1, Len(cc.estimated_rtt_log))
                 = cc.estimated_rtt_log
            /\ SubSeq(cc'.state_log, 1, Len(cc.state_log)) = cc.state_log
            /\ is_ack =>
                 /\ cc'.cwnd_log = Append(cc.cwnd_log,
                        [ whole |-> cc'.congestion_window \div 1500,
                          part  |-> cc'.congestion_window % 1500 ])
                 /\ cc'.estimated_rtt_log =
                        Append(cc.estimated_rtt_log, cc'.estimated_rtt)
                 /\ cc'.rtt_var_log = Append(cc.rtt_var_log, cc'.dev_rtt)
                 /\ cc'.state_log = Append(cc.state_log, state)
            /\ is_loss =>
                 /\ cc'.state_log = Append(cc.state_log, state)
                 /\ cc'.cwnd_log = cc.cwnd_log
                 /\ cc'.estimated_rtt_log = cc.estimated_rtt_log
                 /\ cc'.rtt_var_log = cc.rtt_var_log
      ]_vars

\* Two on_ack calls and two on_loss calls, the last an on_ack that changed
\* the window, the estimate and the state.
C30_Witness ==
    /\ last_call.op = "ack"
    /\ last_call.acks = 2
    /\ last_call.losses = 2
    /\ Len(cc.cwnd_log) = 2
    /\ Len(cc.state_log) = 5
    /\ cc.congestion_window # last_call.pre.congestion_window
    /\ cc.estimated_rtt # last_call.pre.estimated_rtt
    /\ cc.state_log[5] # cc.state_log[4]

(***************************************************************************)
(* Claims about the transmission loop, checked under Spec (continued)      *)
(***************************************************************************)
\* C26: in every window the number of data packets sent is the smaller of
\* floor(congestion_window / 1500), with the window as it is when the window
\* starts, and the number of ids of the attempt not yet sent; it never
\* exceeds that budget; the packets carry the next ids in order and each of
\* them gets the time of its send recorded in packet_sent.
C26_WindowSendsWithinBudget ==
    [][ (pc = "loop" /\ pc' = "wait") =>
          LET budget == cc.congestion_window \div 1500
              unsent == Cardinality((1..num_packets) \ DOMAIN packet_sent)
              sent   == Len(wire') - Len(wire)
          IN  /\ sent = IF budget <= unsent THEN budget ELSE unsent
              /\ sent <= budget
              /\ SubSeq(wire', 1, Len(wire)) = wire
              /\ \A k \in 1..sent :
                   LET id == wire'[Len(wire) + k]
                   IN  /\ id = packet_id + k - 1
                       /\ id \notin DOMAIN packet_sent
                       /\ id \in DOMAIN packet_sent'
                       /\ packet_sent'[id] = now'
              /\ \A id \in DOMAIN packet_sent :
                   id \in DOMAIN packet_sent'
                   /\ packet_sent'[id] = packet_sent[id]
              /\ Cardinality(DOMAIN packet_sent')
                   = Cardinality(DOMAIN packet_sent) + sent
      ]_vars

\* A window with a budget of three or more that had one id left to send.
C26_Witness ==
    /\ pc = "wait"
    /\ acks_left = packets_in_window
    /\ packets_in_window >= 3
    /\ window_start = num_packets
    /\ packet_id = num_packets + 1
    /\ wire[Len(wire)] = num_packets
    /\ num_packets \in DOMAIN packet_sent
    /\ packet_sent[num_packets] = now

C28_TimeoutIsTheOnlyLossTrigger ==
    [][ LET expired     == expiry' # expiry /\ expiry'.seen
            called_loss == last_call'.op = "loss"
                           /\ last_call'.losses = last_call.losses + 1
        IN  /\ expired =>
                 /\ pc = "wait"
                 /\ pc' = "loop"
                 /\ called_loss
                 /\ last_call'.pre = cc
                 /\ last_call'.time_sent = now'
                 /\ last_call'.acks = last_call.acks
                 /\ Len(cc'.state_log) = Len(cc.state_log) + 1
                 /\ Len(cc'.cwnd_log) = Len(cc.cwnd_log)
                 /\ expiry'.stamps = Append(loss_timestamps, now')
                 /\ loss_timestamps' \in { expiry'.stamps, << >> }
                 /\ ~last_call'.persistent =>
                      /\ cc'.loss_detected
                      /\ loss_timestamps' = Append(loss_timestamps, now')
            /\ called_loss => expired
            /\ last_call'.losses # last_call.losses =>
                 (called_loss \/ last_call'.op = "init")
            /\ cc'.state_log # cc.state_log =>
                 \/ called_loss
                 \/ Len(ack_log') = Len(ack_log) + 1
                 \/ last_call'.op = "init"
            /\ loss_timestamps' # loss_timestamps =>
                 (expired \/ loss_timestamps' = << >>)
      ]_vars

\* The second expiry of an attempt, not classified as persistent congestion.
C28_Witness ==
    /\ pc = "loop"
    /\ expiry.seen
    /\ ~expiry.persistent
    /\ last_call.op = "loss"
    /\ last_call.losses = 2
    /\ Len(loss_timestamps) = 2
    /\ loss_timestamps[2] = now
    /\ cc.loss_detected

(***************************************************************************)
(* Claims about the receiver, checked under RecvSpec (continued)           *)
(***************************************************************************)
\* C29: when the receiver's channel simulation drops an inbound data packet,
\* i.e. the loop has read a datagram that is not the end-of-attempt marker
\* and the draw did not accept it, the step adds nothing to received_packets,
\* starts no acknowledgment thread and sends nothing, and the receiver is
\* back at the recvfrom of the loop with its socket and timeout as before.
C29_DroppedPacketLeavesNoTrace ==
    [][ ( /\ r_pc = "recv"
          /\ r_in' = r_in + 1
          /\ r_packet_id' # -1
          /\ r_accepted' = r_accepted )
        => /\ r_pc' = "recv"
           /\ received_packets' = received_packets
           /\ ack_threads' = ack_threads
           /\ r_out' = r_out
           /\ lock' = lock
           /\ r_open' = r_open
           /\ r_timeout' = r_timeout
           /\ r_decided' = r_decided
      ]_vars

\* Packet 1 read from the socket and dropped, nothing accepted before it:
\* no id recorded, no thread, only the CONNECT datagram sent.
C29_Witness ==
    /\ r_pc = "recv"
    /\ r_in = 2
    /\ r_packet_id = 1
    /\ r_accepted = << >>
    /\ r_decided = << >>
    /\ received_packets = {}
    /\ ack_threads = << >>
    /\ r_out = << << "C", "O", "N", "N", "E", "C", "T" >> >>

(***************************************************************************)
(* Claims about the controller, checked under CtlSpec (third part)         *)
(***************************************************************************)
\* C39: from an on_loss call that enters recovery without persistent
\* congestion until the next reset for persistent congestion, ssthresh is
\* finite and congestion_window >= ssthresh in every state, with equality
\* right after that on_loss call; get_congestion_state does not return 0
\* (SlowStart) and no 0 is logged; every on_ack call in the interval grows the
\* window by floor(1500 * acked_bytes / window), the linear branch.
C39_NoSlowStartAfterHalving ==
    last_call.halved =>
      LET p == last_call.pre
      IN  /\ cc.ssthresh # -1
          /\ cc.congestion_window >= cc.ssthresh
          /\ cc.state_log[Len(cc.state_log)] # 0
          /\ last_call.op = "state" => last_call.result # 0
          /\ ( /\ last_call.op = "loss"
               /\ ~(p.recovery_start_time # 0
                    /\ p.recovery_start_time >= last_call.time_sent) )
             => cc.congestion_window = cc.ssthresh
          /\ last_call.op = "ack" =>
               cc.congestion_window = p.congestion_window
                   + ((1500 * last_call.acked_bytes) \div p.congestion_window)

\* An on_ack call after recovery has been left: the window was equal to
\* ssthresh, no loss is flagged any more, and the window grew linearly.
C39_Witness ==
    /\ last_call.halved
    /\ last_call.op = "ack"
    /\ last_call.acks >= 2
    /\ cc.recovery_start_time = 0
    /\ ~last_call.pre.loss_detected
    /\ last_call.pre.congestion_window > last_call.pre.ssthresh
    /\ cc.congestion_window > last_call.pre.congestion_window
    /\ cc.state_log[Len(cc.state_log)] = 1

\* C40: in every state reached by on_ack and on_loss calls from a fresh
\* controller ssthresh is infinite or at least 2 * 1500; it is infinite
\* exactly as long as no on_loss call has been made (the first on_loss call
\* finds no recovery in progress and enters it) and finite ever after.
C40_SsthreshFiniteAfterFirstLoss ==
    /\ cc.ssthresh = -1 \/ cc.ssthresh >= 2 * 1500
    /\ cc.ssthresh = -1 <=> last_call.losses = 0
    /\ last_call.losses >= 1 =>
         (cc.ssthresh # -1 /\ last_call.peak >= cc.ssthresh)
    /\ (last_call.op = "loss" /\ last_call.losses = 1) =>
         /\ last_call.pre.ssthresh = -1
         /\ last_call.pre.recovery_start_time = 0

\* The first on_loss call, made after one on_ack on a window of 4500: half of
\* it is below the floor.
C40_Witness ==
    /\ last_call.op = "loss"
    /\ last_call.losses = 1
    /\ last_call.pre.ssthresh = -1
    /\ last_call.pre.congestion_window = 4500
    /\ cc.ssthresh = 3000

(***************************************************************************)
(* Claims about the transmission loop, checked under Spec (third part)     *)
(***************************************************************************)
\* C31: a deadline expiry that finds the controller still in Recovery from an
\* earlier expiry of the attempt (recovery_start_time set) reduces neither
\* congestion_window nor ssthresh: the on_loss call of such an expiry leaves
\* both as they were.  Expiries classified as persistent congestion, which
\* reset the window by design, are left aside.
C31_OneReductionPerRecovery ==
    ( /\ last_call.op = "loss"
      /\ ~last_call.persistent
      /\ last_call.pre.recovery_start_time # 0 )
    => /\ cc.congestion_window = last_call.pre.congestion_window
       /\ cc.ssthresh = last_call.pre.ssthresh

\* C32: if every data packet sent in an attempt is acknowledged before the
\* deadline of its window and no duplicate or stale acknowledgment arrives,
\* no deadline expiry occurs in the attempt.  Stated for the first expiry of
\* the first attempt, where no acknowledgment can be stale: if the
\* acknowledgments processed so far all named different ids, the expiry found
\* some id sent and not acknowledged.
C32_NoExpiryWhenAllAcked ==
    ( /\ round_index = 0
      /\ num_packets >= 1
      /\ last_call.op = "loss"
      /\ last_call.losses = 1
      /\ Len(ack_log) = Cardinality(acked_packets) )
    => \E id \in DOMAIN packet_sent : id \notin acked_packets

\* C33: the ids examined for the third condition of the persistent-congestion
\* check at a deadline expiry are exactly the ids sent in the current window,
\* none of an earlier window and none outside 1..num_packets, also when the
\* window sent fewer packets than its budget.
C33_ExaminedIdsAreTheWindow ==
    (expiry.seen /\ expiry.examined # {}) =>
        /\ expiry.examined = expiry.first..(expiry.next - 1)
        /\ expiry.examined \subseteq 1..num_packets

(***************************************************************************)
(* Claims about one attempt, checked under AttemptSpec                     *)
(***************************************************************************)
\* C34: within one attempt the first deadline expiry is never classified as
\* persistent congestion, and of two consecutive expiries at most one is:
\* a positive classification empties the loss timestamps, so that the next
\* expiry of the attempt has a single timestamp.
C34_NoTwoPersistentInARow ==
    [][ (expiry' # expiry /\ expiry'.seen) =>
          /\ ~expiry.seen => ~expiry'.persistent
          /\ ~expiry.seen => expiry'.stamps = << now' >>
          /\ (expiry.seen /\ expiry.persistent) =>
               /\ loss_timestamps = << >>
               /\ expiry'.stamps = << now' >>
               /\ ~expiry'.persistent
               /\ ~last_call'.persistent
          /\ expiry'.persistent =>
               /\ Len(expiry'.stamps) >= 2
               /\ loss_timestamps' = << >>
      ]_vars

\* The expiry after one classified as persistent congestion: a single
\* timestamp, not persistent, three expiries so far.
C34_Witness ==
    /\ expiry.seen
    /\ ~expiry.persistent
    /\ expiry.stamps = << now >>
    /\ last_call.op = "loss"
    /\ last_call.losses = 3
    /\ loss_timestamps = << now >>

\* C35: an acknowledgment whose id has no send record in the current attempt
\* aborts the attempt with KeyError, which leaves simulate, before anything
\* is recorded.  Every acknowledgment delivered in a window wait is either
\* processed, and then names an id sent in this attempt, or raises KeyError;
\* the step that raises leaves the controller with its logs, packet_times,
\* rtt_times and the set of acknowledged ids as they were, sends nothing,
\* and no step of the sender follows it.
C35_UnknownAckAbortsUntouched ==
    [][ LET delivered == pc = "wait" /\ acks_delivered' = acks_delivered + 1
            processed == Len(ack_log') = Len(ack_log) + 1
            raised    == pc # "raised" /\ pc' = "raised" /\ exc' = "KeyError"
        IN  /\ (delivered /\ ~processed) => raised
            /\ (delivered /\ processed) =>
                 /\ pc' \in {"wait", "loop"}
                 /\ \E id \in DOMAIN packet_sent :
                      acked_packets' = acked_packets \cup {id}
            /\ raised =>
                 /\ delivered
                 /\ cc' = cc
                 /\ last_call' = last_call
                 /\ packet_times' = packet_times
                 /\ rtt_times' = rtt_times
                 /\ acked_packets' = acked_packets
                 /\ packet_sent' = packet_sent
                 /\ loss_timestamps' = loss_timestamps
                 /\ total_data_passed' = total_data_passed
                 /\ wire' = wire
            /\ (pc = "raised" /\ exc = "KeyError") =>
                 UNCHANGED << pc, exc, cc, wire, packet_times, rtt_times,
                              acked_packets, total_data_passed >>
      ]_vars

\* In the second attempt, after one acknowledgment has been processed, an
\* acknowledgment arrives for an id the attempt has not sent.
C35_Witness ==
    /\ pc = "raised"
    /\ exc = "KeyError"
    /\ round_index = 1
    /\ Len(ack_log) = 1
    /\ Cardinality(acked_packets) = 1
    /\ cc.congestion_window = 4500
    /\ Len(total_data_passed) = 1
    /\ wire[Len(wire)] >= 1

(***************************************************************************)
(* Claims about one attempt, checked under FairAttemptSpec                 *)
(***************************************************************************)
\* The end-of-attempt marker is the last datagram handed to the socket.
EndMarkerSent == wire # << >> /\ Last(wire) = -1

\* C38 as stated: in every attempt, whatever acknowledgments arrive and
\* whatever deadlines expire, the end-of-attempt marker is eventually sent.
C38_EndMarkerAlwaysSent == <>EndMarkerSent

\* C38: every attempt terminates.  Each window sends at least one id that
\* was not sent before and none above num_packets, so the window loop ends
\* after at most num_packets windows; and unless an acknowledgment for an
\* id the attempt has not sent aborts it with KeyError, the end-of-attempt
\* marker is eventually sent.
C38_AttemptTerminates ==
    /\ [][ (pc = "loop" /\ LoopContinues(packet_id, num_packets)) =>
             /\ packet_id' > packet_id
             /\ packet_id' <= num_packets + 1
             /\ sent_packets' = packet_id' - 1
             /\ \A id \in packet_id..(packet_id' - 1) :
                  id \notin DOMAIN packet_sent /\ id \in DOMAIN packet_sent'
         ]_vars
    /\ [](packet_id <= num_packets + 1 /\ sent_packets = packet_id - 1)
    /\ [](EndMarkerSent => sent_packets = num_packets)
    /\ <>(EndMarkerSent \/ exc = "KeyError")

\* Three packets, three windows: the first two each lose an
\* acknowledgment and run into the deadline, and the marker follows the
\* third.
C38_Witness ==
    /\ EndMarkerSent
    /\ num_packets = 3
    /\ wire = << 0, 1, 2, 3, -1 >>
    /\ last_call.losses = 2
    /\ acked_packets = {1, 3}

(***************************************************************************)
(* Claims about a session, checked under SessionSpec                       *)
(***************************************************************************)
\* The position in wire of the start marker of the current attempt.
AttemptStart ==
    IF \E i \in DOMAIN wire : wire[i] = 0
    THEN CHOOSE i \in DOMAIN wire :
            wire[i] = 0 /\ \A j \in DOMAIN wire : wire[j] = 0 => j <= i
    ELSE 0

\* The data ids of the current attempt that the receiver has read.
ReadOfThisAttempt ==
    { wire[i] : i \in { j \in DOMAIN wire : j > AttemptStart /\ j <= r_in } }

\* C36: every acknowledgment counted in an attempt was emitted for a packet
\* sent in that attempt: an id is in the attempt's acknowledged set only if
\* the receiver has read the datagram of this attempt that carries it.
C36_AcksAreOfThisAttempt == acked_packets \subseteq ReadOfThisAttempt

\* C37: the receiver never accepts the start marker: 0 is not added to
\* received_packets, no send_ack thread is started for it and no
\* acknowledgment for it is emitted; and the sender never receives an
\* acknowledgment for an id it has no send record of.
C37_StartMarkerNeverAcknowledged ==
    /\ 0 \notin received_packets
    /\ \A i \in DOMAIN r_accepted : r_accepted[i] # 0
    /\ \A i \in DOMAIN ack_threads : ack_threads[i] # 0
    /\ \A i \in DOMAIN r_out : r_out[i] # make_ack_packet(0)
    /\ exc # "KeyError"

(***************************************************************************)
(* Claims about the RTT estimator, checked under EstSpec                   *)
(***************************************************************************)
\* C23: update_rtt(sample) sets estimated_rtt to 7/8 of the old estimate plus
\* 1/8 of the sample and then the deviation to 3/4 of the old deviation plus
\* 1/4 of |sample - estimated_rtt| with the estimate just updated; on a fresh
\* estimator (0.1 ms, 1.0 ms) the sample 50 ms gives 6.3375 ms and
\* 11.665625 ms; on_ack makes the same update with its round trip time
\* multiplied by 1000 as the sample.  Estimates are in millionths of a
\* millisecond, round trip times of on_ack in thousandths.
C23_UpdateRtt ==
    last_call.op \in {"rtt", "ack"} =>
      LET old    == last_call.pre
          sample == IF last_call.op = "ack" THEN last_call.rtt * 1000
                    ELSE last_call.rtt
      IN  /\ cc.estimated_rtt = (7 * old.estimated_rtt + sample) \div 8
          /\ cc.dev_rtt =
               (3 * old.dev_rtt + Abs(sample - cc.estimated_rtt)) \div 4
          /\ (old.estimated_rtt = 100000 /\ old.dev_rtt = 1000000
              /\ sample = 50000000)
             => (cc.estimated_rtt = 6337500 /\ cc.dev_rtt = 11665625)

\* update_rtt(50) on a fresh estimator, the call of test_update_rtt.
C23_Witness ==
    /\ last_call.op = "rtt"
    /\ last_call.rtt = 50000000
    /\ last_call.pre.estimated_rtt = 100000
    /\ last_call.pre.dev_rtt = 1000000
    /\ last_call.pre.rtt_var_log = << >>
    /\ cc.estimated_rtt = 6337500
    /\ cc.rtt_var_log = << 11665625 >>

====
